---- MODULE Spec2Model ----
(***************************************************************************)
(* A model of the Apple documentation search server: the MCP request       *)
(* handlers of server.js (concurrency-1 queue, soft timeouts) and the      *)
(* retrieval engine of search.js (primary search, related-document         *)
(* discovery, relationship classification, store lifecycle).               *)
(*                                                                         *)
(* Numbers.  Similarity floors and thresholds are decimal fractions with   *)
(* two digits in the source; the model writes them in hundredths (0.3 is   *)
(* 30).  A cosine similarity is kept exactly, as a sign and the reduced    *)
(* fraction p/q of its square, so that comparisons need no square root.    *)
(* IEEE rounding of the source's doubles and Float32Array is not modelled. *)
(***************************************************************************)
EXTENDS Integers, Sequences, FiniteSets, TLC

VARIABLES
    corpus,             \* the store: rows of documents JOIN embeddings, in row order
    db,                 \* AppleSearchEngine.db: "null" or "open"
    initialized,        \* AppleSearchEngine.initialized
    openaiInitialized,  \* AppleSearchEngine.openaiInitialized
    inflight,           \* engine searches suspended at `await this.getEmbedding`
    call,               \* the last engine call that finished: what was called, and its outcome
    searchEngine,       \* AppleSearchMCPServer.searchEngine: "null" or "engine"
    initPromise,        \* AppleSearchMCPServer.initPromise: "null", "resolved", "rejected"
    queue,              \* p-limit's queue of request ids waiting for the slot
    activeCount,        \* p-limit's activeCount
    reqs,               \* the tool requests: arguments, position in the handler, response
    ops,                \* the engine operation each request started, and its state
    embeddingCalls,     \* how many times this.openai.embeddings.create was called
    cache,              \* CompatibilityAnalyzer.cache: document id -> compatibility
    dbFile,             \* postinstall.js: the file at DB_PATH, whether it exists and its size
    install             \* postinstall.js: the run of the script, its position and counters

vars == <<corpus, db, initialized, openaiInitialized, inflight, call,
          searchEngine, initPromise, queue, activeCount, reqs, ops,
          embeddingCalls, cache, dbFile, install>>

engineVars == <<db, initialized, openaiInitialized>>
serverVars == <<searchEngine, initPromise, queue, activeCount, reqs, ops>>
apiVars == <<embeddingCalls, cache>>
installVars == <<dbFile, install>>

(***************************************************************************)
(* Bounds of the model.                                                     *)
(***************************************************************************)
MaxDocs == 3
MaxLimit == 4

(***************************************************************************)
(* Results of operations that may throw.                                    *)
(***************************************************************************)
Ok(v) == [ok |-> TRUE, val |-> v]
Err(m) == [ok |-> FALSE, err |-> m]

Min(a, b) == IF a <= b THEN a ELSE b
Max(a, b) == IF a >= b THEN a ELSE b
Abs(a) == IF a < 0 THEN 0 - a ELSE a

RECURSIVE GCD(_, _)
GCD(a, b) == IF b = 0 THEN a ELSE GCD(b, a % b)

RECURSIVE SumSeq(_)
SumSeq(s) == IF s = <<>> THEN 0 ELSE Head(s) + SumSeq(Tail(s))

Range(s) == {s[i] : i \in DOMAIN s}

(***************************************************************************)
(* Similarity values.  [neg, p, q] stands for  (neg ? -1 : 1) * sqrt(p/q),  *)
(* with p/q reduced and q > 0.                                              *)
(***************************************************************************)
MkSim(num, den2) ==
    IF num = 0 THEN [neg |-> FALSE, p |-> 0, q |-> 1]
    ELSE LET g == GCD(num * num, den2)
         IN  [neg |-> num < 0, p |-> (num * num) \div g, q |-> den2 \div g]

\* The similarity h/100.
FromHundredths(h) == MkSim(h, 10000)

\* x >= y on similarity values (the source's `>=` on numbers).
SimGeq(x, y) ==
    CASE (~x.neg) /\ y.neg -> TRUE
      [] x.neg /\ (~y.neg) -> FALSE
      [] (~x.neg) /\ (~y.neg) -> x.p * y.q >= y.p * x.q
      [] OTHER -> x.p * y.q <= y.p * x.q

SimGt(x, y) == ~SimGeq(y, x)

\* The hundredths of a similarity that is a whole number of hundredths.
ToHundredths(x) ==
    LET rp == CHOOSE r \in 0..100 : r * r = x.p
        rq == CHOOSE r \in 1..100 : r * r = x.q
    IN  (IF x.neg THEN 0 - 1 ELSE 1) * ((100 * rp) \div rq)

(***************************************************************************)
(* calculateCosineSimilarity                                                *)
(***************************************************************************)
Dot(a, b) == SumSeq([i \in DOMAIN a |-> a[i] * b[i]])

\* The quotient 0/0 of a similarity without the guard on the norms.
NaN == [neg |-> FALSE, p |-> 0, q |-> 0]

\* A similarity that divides whatever the norms are.
calculateCosineSimilarity_Unguarded(vectorA, vectorB) ==
    IF Len(vectorA) # Len(vectorB)
    THEN Err("Vectors must have the same length")
    ELSE LET dotProduct == Dot(vectorA, vectorB)
             normA2 == Dot(vectorA, vectorA)
             normB2 == Dot(vectorB, vectorB)
         IN  IF normA2 = 0 \/ normB2 = 0
             THEN Ok(NaN)
             ELSE Ok(MkSim(dotProduct, normA2 * normB2))

\* A similarity over the common prefix of vectors of different lengths.
calculateCosineSimilarity_CommonPrefix(vectorA, vectorB) ==
    LET n == Min(Len(vectorA), Len(vectorB))
        a == SubSeq(vectorA, 1, n)
        b == SubSeq(vectorB, 1, n)
        dotProduct == Dot(a, b)
        normA2 == Dot(a, a)
        normB2 == Dot(b, b)
    IN  IF normA2 = 0 \/ normB2 = 0
        THEN Ok(MkSim(0, 1))
        ELSE Ok(MkSim(dotProduct, normA2 * normB2))

\* A similarity normalised by the first vector alone.
calculateCosineSimilarity_ByFirstNorm(vectorA, vectorB) ==
    IF Len(vectorA) # Len(vectorB)
    THEN Err("Vectors must have the same length")
    ELSE LET dotProduct == Dot(vectorA, vectorB)
             normA2 == Dot(vectorA, vectorA)
             normB2 == Dot(vectorB, vectorB)
         IN  IF normA2 = 0 \/ normB2 = 0
             THEN Ok(MkSim(0, 1))
             ELSE Ok(MkSim(dotProduct, normA2 * normA2))

calculateCosineSimilarity(vectorA, vectorB) ==
    IF Len(vectorA) # Len(vectorB)
    THEN Err("Vectors must have the same length")
    ELSE LET dotProduct == Dot(vectorA, vectorB)
             normA2 == Dot(vectorA, vectorA)
             normB2 == Dot(vectorB, vectorB)
         IN  IF normA2 = 0 \/ normB2 = 0
             THEN Ok(MkSim(0, 1))
             ELSE Ok(MkSim(dotProduct, normA2 * normB2))

(***************************************************************************)
(* Documents.  A stored row is [id, title, content, vec]: vec is the        *)
(* embedding after blobToFloat32Array.  A title is the set of its words; a  *)
(* content is a sequence of tokens (see the relationship classifier).      *)
(***************************************************************************)
Doc(i, t, c, v) == [id |-> i, title |-> t, content |-> c, vec |-> v]

Scored(doc, sim) ==
    [id |-> doc.id, title |-> doc.title, content |-> doc.content, similarity |-> sim]

\* Array.prototype.sort with (a, b) => b.similarity - a.similarity: a stable
\* sort into non-increasing similarity.
RECURSIVE InsertDesc(_, _)
InsertDesc(sorted, x) ==
    IF sorted = <<>> THEN <<x>>
    ELSE IF SimGeq(Head(sorted).similarity, x.similarity)
         THEN <<Head(sorted)>> \o InsertDesc(Tail(sorted), x)
         ELSE <<x>> \o sorted

\* A sort that leaves the corpus order as it is.
SortDesc_Unsorted(s) == s

RECURSIVE SortDesc(_)
SortDesc(s) ==
    IF s = <<>> THEN <<>>
    ELSE InsertDesc(SortDesc(SubSeq(s, 1, Len(s) - 1)), s[Len(s)])

\* Array.prototype.filter(doc => doc.similarity >= floor), floor in hundredths.
FilterAtLeast(s, floor) ==
    LET Keep(d) == SimGeq(d.similarity, FromHundredths(floor))
    IN  SelectSeq(s, Keep)

\* Array.prototype.slice(0, n) for n >= 0.
SliceTo(s, n) == SubSeq(s, 1, Min(n, Len(s)))

\* documents.map(doc => score against the vector); a throw inside map aborts it.
ScoreAll(allDocuments, queryVector) ==
    LET sims == [i \in DOMAIN allDocuments |->
                    calculateCosineSimilarity(queryVector, allDocuments[i].vec)]
    IN  IF \E i \in DOMAIN sims : ~sims[i].ok
        THEN Err("Vectors must have the same length")
        ELSE Ok([i \in DOMAIN allDocuments |-> Scored(allDocuments[i], sims[i].val)])

\* A search that keeps relaxing the floor while too few documents survive.
searchScan_RelaxAgain(allDocuments, queryVector, limit, minSimilarity) ==
    LET resultsWithSimilarity == ScoreAll(allDocuments, queryVector)
    IN  IF ~resultsWithSimilarity.ok THEN resultsWithSimilarity
        ELSE LET sortedResults == SortDesc(resultsWithSimilarity.val)
                 first == FilterAtLeast(sortedResults, minSimilarity)
                 floor1 == Max(20, minSimilarity - 10)
                 second == IF Len(first) < Min(3, limit) /\ minSimilarity > 20
                           THEN FilterAtLeast(sortedResults, floor1)
                           ELSE first
                 third == IF Len(second) < Min(3, limit) /\ floor1 > 20
                          THEN FilterAtLeast(sortedResults, Max(20, floor1 - 10))
                          ELSE second
             IN  Ok(SliceTo(third, limit))

(***************************************************************************)
(* AppleSearchEngine.search, from the corpus scan on (the part after the    *)
(* query embedding has arrived).                                            *)
(***************************************************************************)
searchScan(allDocuments, queryVector, limit, minSimilarity) ==
    LET resultsWithSimilarity == ScoreAll(allDocuments, queryVector)
    IN  IF ~resultsWithSimilarity.ok THEN resultsWithSimilarity
        ELSE LET sortedResults == SortDesc(resultsWithSimilarity.val)
                 filteredResults == FilterAtLeast(sortedResults, minSimilarity)
                 fallbackThreshold == Max(20, minSimilarity - 10)
                 relaxed == IF Len(filteredResults) < Min(3, limit) /\ minSimilarity > 20
                            THEN FilterAtLeast(sortedResults, fallbackThreshold)
                            ELSE filteredResults
             IN  Ok(SliceTo(relaxed, limit))

(***************************************************************************)
(* Inputs of the search specification.                                      *)
(***************************************************************************)
NoTitle == {}
NoContent == <<>>

SearchVecs == {<<1, 0>>, <<0, 1>>, <<3, 4>>, <<1, 1>>, <<0, 0>>, <<-1, 0>>}
QueryVecs == {<<1, 0>>, <<1, 1>>, <<0, 0>>}
Floors == {10, 20, 25, 30, 55, 75, 100}

\* Five documents whose similarities to ExampleQuery are 0.9, 0.6, 0.5, 0.2, 0.1.
ExampleQuery == <<1, 0, 0, 0>>
ExampleCorpus ==
    << Doc(1, NoTitle, NoContent, <<9, 3, 3, 1>>),
       Doc(2, NoTitle, NoContent, <<6, 8, 0, 0>>),
       Doc(3, NoTitle, NoContent, <<5, 5, 5, 5>>),
       Doc(4, NoTitle, NoContent, <<2, 8, 4, 4>>),
       Doc(5, NoTitle, NoContent, <<1, 9, 3, 3>>) >>

SearchCorpora ==
    UNION { { [i \in 1..n |-> Doc(i, NoTitle, NoContent, f[i])] :
                f \in [1..n -> SearchVecs] } : n \in 0..MaxDocs }
    \cup {ExampleCorpus}

NoCall == [op |-> "none"]

\* postinstall.js has not run: nothing is at DB_PATH.
NotInstalled ==
    /\ dbFile = [exists |-> FALSE, size |-> 0]
    /\ install = [pc |-> "start", run |-> 1, downloadedBytes |-> 0, redirected |-> FALSE,
                  status |-> 0, error |-> "none"]

ServerIdle ==
    /\ searchEngine = "null"
    /\ initPromise = "null"
    /\ queue = <<>>
    /\ activeCount = 0
    /\ reqs = <<>>
    /\ ops = <<>>

InitSearch ==
    /\ corpus \in SearchCorpora
    /\ db = "open"
    /\ initialized = TRUE
    /\ openaiInitialized = TRUE
    /\ inflight = {}
    /\ call = NoCall
    /\ embeddingCalls = 0
    /\ cache = <<>>
    /\ ServerIdle
    /\ NotInstalled

\* The corpus scan of one search call whose query embedding is queryVector.
SearchScan ==
    /\ call = NoCall
    /\ \E queryVector \in QueryVecs \cup {ExampleQuery}, limit \in 0..MaxLimit \cup {10},
          minSimilarity \in Floors :
        /\ \A i \in DOMAIN corpus : Len(corpus[i].vec) = Len(queryVector)
        /\ call' = [op |-> "search", queryVector |-> queryVector, limit |-> limit,
                    minSimilarity |-> minSimilarity,
                    ret |-> searchScan(corpus, queryVector, limit, minSimilarity)]
        /\ UNCHANGED <<corpus, installVars, apiVars, engineVars, inflight, serverVars>>

NextSearch == SearchScan

SpecSearch == InitSearch /\ [][NextSearch]_vars

(***************************************************************************)
(* What the claims about search say, stated on the finished call without    *)
(* the operators of the search itself.                                      *)
(***************************************************************************)
SearchCalled == call.op = "search"

\* The score of corpus row i under the call's query vector.
ScoreOf(i) == calculateCosineSimilarity(call.queryVector, corpus[i].vec).val

\* The rows that score at least `floor` hundredths.
Qualifying(floor) ==
    {i \in DOMAIN corpus : SimGeq(ScoreOf(i), FromHundredths(floor))}

RelaxFires ==
    /\ Cardinality(Qualifying(call.minSimilarity)) < Min(3, call.limit)
    /\ call.minSimilarity > 20

EffectiveFloor ==
    IF RelaxFires THEN Max(20, call.minSimilarity - 10) ELSE call.minSimilarity

ReturnedIds == {call.ret.val[j].id : j \in DOMAIN call.ret.val}

\* C4: search returns, without an error, a list in non-increasing similarity
\* order, of at most `limit` entries, each a distinct corpus document with its
\* own score, each scoring at least the effective floor (the given floor, or
\* the relaxed one when auto-relax fired), and no omitted document scores
\* strictly higher than a returned one; when nothing qualifies the list is empty.
Thm_C4_SearchResultShape ==
    SearchCalled =>
        /\ call.ret.ok
        /\ LET R == call.ret.val
           IN  /\ \A j \in 1..(Len(R) - 1) : SimGeq(R[j].similarity, R[j + 1].similarity)
               /\ Len(R) <= call.limit
               /\ \A j, k \in DOMAIN R : R[j].id = R[k].id => j = k
               /\ \A j \in DOMAIN R :
                    /\ \E i \in DOMAIN corpus :
                         corpus[i].id = R[j].id /\ R[j].similarity = ScoreOf(i)
                    /\ SimGeq(R[j].similarity, FromHundredths(EffectiveFloor))
               /\ \A i \in DOMAIN corpus :
                    corpus[i].id \notin ReturnedIds =>
                        \A j \in DOMAIN R : ~SimGt(ScoreOf(i), R[j].similarity)
               /\ (Qualifying(EffectiveFloor) = {} => R = <<>>)

\* C4's case: more documents qualify than the limit admits, so the sorted list
\* is truncated and a qualifying document is left out.
Witness_C4 ==
    /\ SearchCalled
    /\ call.ret.ok
    /\ Len(call.ret.val) = call.limit
    /\ call.limit >= 2
    /\ Cardinality(Qualifying(EffectiveFloor)) > call.limit
    /\ \E j \in DOMAIN call.ret.val :
         SimGt(call.ret.val[1].similarity, call.ret.val[j].similarity)

\* C5: the floor is relaxed exactly when fewer than min(3, limit) documents
\* score at least the floor and the floor is above 0.2; the relaxed floor is
\* max(0.2, floor - 0.1) and it is applied once: the call returns the first
\* `limit` of the documents scoring at least that effective floor and nothing
\* below it.  On the corpus with similarities 0.9, 0.6, 0.5, 0.2, 0.1 and
\* limit 10, floors 0.3 and 0.55 both return the documents scoring 0.9, 0.6, 0.5.
Thm_C5_AutoRelaxOnce ==
    SearchCalled =>
        /\ call.ret.ok
        /\ LET R == call.ret.val
           IN  /\ \A j \in DOMAIN R :
                    \E i \in Qualifying(EffectiveFloor) : corpus[i].id = R[j].id
               /\ Len(R) = Min(call.limit, Cardinality(Qualifying(EffectiveFloor)))
               /\ (corpus = ExampleCorpus /\ call.queryVector = ExampleQuery
                   /\ call.limit = 10 /\ call.minSimilarity \in {30, 55})
                  => [j \in DOMAIN R |-> R[j].id] = <<1, 2, 3>>

\* C5's case: the example corpus searched with floor 0.55, where only two
\* documents pass the floor, the relaxation to 0.45 fires and a third is returned.
Witness_C5 ==
    /\ SearchCalled
    /\ corpus = ExampleCorpus
    /\ call.queryVector = ExampleQuery
    /\ call.limit = 10
    /\ call.minSimilarity = 55
    /\ Cardinality(Qualifying(55)) = 2
    /\ RelaxFires
    /\ EffectiveFloor = 45
    /\ Len(call.ret.val) = 3

(***************************************************************************)
(* Relationship classification.                                             *)
(*                                                                          *)
(* A title or a query is the set of its words, in their original case; a    *)
(* multi-word framework name is one word.  toLowerCase maps a word to its   *)
(* lower-case form, and `includes(term)` holds of a lower-cased title when  *)
(* one of its words has the term as a substring.  A content is a sequence   *)
(* of tokens: a fence marker, a type declaration (keyword and name), or     *)
(* text.  The labels are the source's strings without their emoji prefix.   *)
(***************************************************************************)
MaxTitleWords == 2

Words ==
    {"Bringing", "Migrating", "Converting", "Transitions", "SceneKit", "RealityKit",
     "UIKit", "SwiftUI", "Core Animation", "Core Image", "Performance", "Optimizing",
     "Efficient", "Faster", "Sample", "Demo", "Example", "Tutorial", "Metal",
     "visionOS", "macOS", "iOS", "tvOS", "Overview"}

\* String.prototype.toLowerCase on a word.
LowerWord(w) ==
    CASE w = "Bringing" -> "bringing"
      [] w = "Migrating" -> "migrating"
      [] w = "Converting" -> "converting"
      [] w = "Transitions" -> "transitions"
      [] w = "SceneKit" -> "scenekit"
      [] w = "RealityKit" -> "realitykit"
      [] w = "UIKit" -> "uikit"
      [] w = "SwiftUI" -> "swiftui"
      [] w = "Core Animation" -> "core animation"
      [] w = "Core Image" -> "core image"
      [] w = "Performance" -> "performance"
      [] w = "Optimizing" -> "optimizing"
      [] w = "Efficient" -> "efficient"
      [] w = "Faster" -> "faster"
      [] w = "Sample" -> "sample"
      [] w = "Demo" -> "demo"
      [] w = "Example" -> "example"
      [] w = "Tutorial" -> "tutorial"
      [] w = "Metal" -> "metal"
      [] w = "visionOS" -> "visionos"
      [] w = "macOS" -> "macos"
      [] w = "iOS" -> "ios"
      [] w = "tvOS" -> "tvos"
      [] w = "Overview" -> "overview"
      [] OTHER -> w

toLowerCase(text) == {LowerWord(w) : w \in text}

\* The terms the source looks for that are substrings of a lower-case word.
TermsIn(lw) ==
    CASE lw = "migrating" -> {"migrat", "migrating"}
      [] lw = "transitions" -> {"transition"}
      [] lw = "optimizing" -> {"optimiz"}
      [] lw = "overview" -> {}
      [] OTHER -> {lw}

\* String.prototype.includes on a lower-cased text.
includes(lowered, term) == \E lw \in lowered : term \in TermsIn(lw)

\* Content tokens: a code fence marker (three backquotes) and a type declaration.
Fence == "fence"
Decl == "struct Name"

\* (content.match(re) || []).length for the two patterns of isApiReference:
\* the lazy fence pattern pairs the fence markers off from the left.
CountTokens(content, tok) == Cardinality({i \in DOMAIN content : content[i] = tok})

isApiReference(content) ==
    LET codeBlockCount == CountTokens(content, Fence) \div 2
        structCount == CountTokens(content, Decl)
    IN  codeBlockCount >= 3 \/ structCount >= 2

\* A classifier that looks at the content before it looks at the title.
determineRelationshipType_ContentFirst(candidate, mainResults, originalQuery) ==
    LET candidateTitle == toLowerCase(candidate.title)
    IN  IF isApiReference(candidate.content) THEN "API Reference"
        ELSE IF includes(candidateTitle, "bringing") \/ includes(candidateTitle, "migrat")
                \/ includes(candidateTitle, "converting")
                \/ includes(candidateTitle, "transition")
        THEN "Migration Guide"
        ELSE "Related Topic"

\* A classifier with no default rule.
determineRelationshipType_NoDefault(candidate, mainResults, originalQuery) ==
    LET candidateTitle == toLowerCase(candidate.title)
    IN  IF includes(candidateTitle, "bringing") \/ includes(candidateTitle, "migrat")
           \/ includes(candidateTitle, "converting")
           \/ includes(candidateTitle, "transition")
        THEN "Migration Guide"
        ELSE IF isApiReference(candidate.content) THEN "API Reference"
        ELSE "undefined"

determineRelationshipType(candidate, mainResults, originalQuery) ==
    LET candidateTitle == toLowerCase(candidate.title)
        mainTitles == [i \in DOMAIN mainResults |-> toLowerCase(mainResults[i].title)]
        queryLower == toLowerCase(originalQuery)
        SomeMain(term) == \E i \in DOMAIN mainTitles : includes(mainTitles[i], term)
    IN  IF includes(candidateTitle, "bringing") \/ includes(candidateTitle, "migrat")
           \/ includes(candidateTitle, "converting")
           \/ includes(candidateTitle, "transition")
        THEN "Migration Guide"
        ELSE IF \/ SomeMain("scenekit") /\ includes(candidateTitle, "realitykit")
                \/ SomeMain("uikit") /\ includes(candidateTitle, "swiftui")
                \/ SomeMain("core animation") /\ includes(candidateTitle, "swiftui")
        THEN "Modern Alternative"
        ELSE IF includes(candidateTitle, "performance") \/ includes(candidateTitle, "optimiz")
                \/ includes(candidateTitle, "efficient") \/ includes(candidateTitle, "faster")
        THEN "Performance Guide"
        ELSE IF includes(candidateTitle, "sample") \/ includes(candidateTitle, "demo")
                \/ includes(candidateTitle, "example") \/ includes(candidateTitle, "tutorial")
        THEN "Code Example"
        ELSE IF \/ includes(queryLower, "realitykit") /\ includes(candidateTitle, "metal")
                \/ includes(queryLower, "swiftui") /\ includes(candidateTitle, "core animation")
                \/ includes(queryLower, "core image") /\ includes(candidateTitle, "metal")
        THEN "Low-Level Implementation"
        ELSE IF isApiReference(candidate.content)
        THEN "API Reference"
        ELSE IF includes(candidateTitle, "visionos") \/ includes(candidateTitle, "macos")
                \/ includes(candidateTitle, "ios") \/ includes(candidateTitle, "tvos")
        THEN "Platform Specific"
        ELSE "Related Topic"

\* candidates.map(candidate => ({...candidate, relationship}))
classifyRelationships(candidates, mainResults, originalQuery) ==
    [i \in DOMAIN candidates |->
        [id |-> candidates[i].id, title |-> candidates[i].title,
         content |-> candidates[i].content, similarity |-> candidates[i].similarity,
         relationship |-> determineRelationshipType(candidates[i], mainResults, originalQuery)]]

(***************************************************************************)
(* Inputs of the classification specification.                              *)
(***************************************************************************)
RECURSIVE TitlesUpTo(_)
TitlesUpTo(k) ==
    IF k = 0 THEN {{}}
    ELSE LET shorter == TitlesUpTo(k - 1)
         IN  shorter \cup {t \cup {w} : t \in shorter, w \in Words}

Titles == TitlesUpTo(MaxTitleWords)

Contents ==
    { <<>>,
      <<"text", Decl>>,
      <<Decl, "text", Decl>>,
      <<Fence, "text", Fence, Fence, Decl, Fence>>,
      <<Fence, Fence, Fence, Fence, Fence, Fence>>,
      <<Fence, Fence, Fence, "text", Fence, Fence>> }

MainTitleLists ==
    { <<>>, <<{"Overview"}>>, <<{"SceneKit", "Overview"}>>,
      <<{"Overview"}, {"UIKit"}>>, <<{"Core Animation"}>> }

Queries == { {"Overview"}, {"RealityKit"}, {"SwiftUI", "Overview"}, {"Core Image"} }

InitClassify ==
    /\ corpus = <<>>
    /\ db = "open"
    /\ initialized = TRUE
    /\ openaiInitialized = TRUE
    /\ inflight = {}
    /\ call = NoCall
    /\ embeddingCalls = 0
    /\ cache = <<>>
    /\ ServerIdle
    /\ NotInstalled

\* One call of determineRelationshipType.
Classify ==
    /\ call = NoCall
    /\ \E title \in Titles, content \in Contents, mains \in MainTitleLists, query \in Queries :
        LET candidate == [id |-> 1, title |-> title, content |-> content,
                          similarity |-> FromHundredths(50)]
            mainResults == [i \in DOMAIN mains |->
                               [id |-> 1 + i, title |-> mains[i], content |-> <<>>,
                                similarity |-> FromHundredths(50)]]
        IN  /\ call' = [op |-> "classify", candidate |-> candidate,
                        mainResults |-> mainResults, originalQuery |-> query,
                        ret |-> determineRelationshipType(candidate, mainResults, query)]
            /\ UNCHANGED <<corpus, installVars, apiVars, engineVars, inflight, serverVars>>

NextClassify == Classify

SpecClassify == InitClassify /\ [][NextClassify]_vars

(***************************************************************************)
(* The rule table of the specification, stated on the call's arguments.     *)
(***************************************************************************)
Classified == call.op = "classify"

Labels ==
    <<"Migration Guide", "Modern Alternative", "Performance Guide", "Code Example",
      "Low-Level Implementation", "API Reference", "Platform Specific", "Related Topic">>

TitleHas(term) == includes(toLowerCase(call.candidate.title), term)
QueryHas(term) == includes(toLowerCase(call.originalQuery), term)
MainHas(term) ==
    \E i \in DOMAIN call.mainResults :
        includes(toLowerCase(call.mainResults[i].title), term)

RuleHolds(k) ==
    CASE k = 1 -> \E t \in {"bringing", "migrat", "converting", "transition"} : TitleHas(t)
      [] k = 2 -> \/ MainHas("scenekit") /\ TitleHas("realitykit")
                  \/ (MainHas("uikit") \/ MainHas("core animation")) /\ TitleHas("swiftui")
      [] k = 3 -> \E t \in {"performance", "optimiz", "efficient", "faster"} : TitleHas(t)
      [] k = 4 -> \E t \in {"sample", "demo", "example", "tutorial"} : TitleHas(t)
      [] k = 5 -> \/ (QueryHas("realitykit") \/ QueryHas("core image")) /\ TitleHas("metal")
                  \/ QueryHas("swiftui") /\ TitleHas("core animation")
      [] k = 6 -> \/ CountTokens(call.candidate.content, Fence) >= 6
                  \/ CountTokens(call.candidate.content, Decl) >= 2
      [] k = 7 -> \E t \in {"visionos", "macos", "ios", "tvos"} : TitleHas(t)
      [] OTHER -> TRUE

FirstRule == CHOOSE k \in 1..8 : RuleHolds(k) /\ \A j \in 1..(k - 1) : ~RuleHolds(j)

\* C8: classification is total: every call of determineRelationshipType
\* returns one label, and it is one of the eight defined labels.
Thm_C8_ClassificationTotal ==
    Classified => \E k \in 1..8 : call.ret = Labels[k]

\* C8's case: a candidate that matches none of the seven specific rules and
\* is labelled by the default rule.
Witness_C8 ==
    /\ Classified
    /\ \A k \in 1..7 : ~RuleHolds(k)
    /\ call.ret = "Related Topic"

\* C9: classification is first-match-wins in the fixed rule order: the label
\* returned is that of the lowest-numbered rule whose condition holds.
Thm_C9_FirstMatchWins ==
    Classified => call.ret = Labels[FirstRule]

\* C9's case: a title with a migration term on a content with at least three
\* fenced code blocks is labelled Migration Guide, not API Reference.
Witness_C9 ==
    /\ Classified
    /\ RuleHolds(1)
    /\ CountTokens(call.candidate.content, Fence) >= 6
    /\ call.ret = "Migration Guide"

(***************************************************************************)
(* Related-document discovery.                                              *)
(*                                                                          *)
(* The engine methods read the store through this.db; a method is given     *)
(* the handle state dbv and the rows.  A read through a null handle throws  *)
(* (TypeError on this.db.prepare).                                          *)
(***************************************************************************)
\* stmt.all() of `SELECT id, embedding FROM embeddings WHERE id IN (...)`.
SelectEmbeddings(dbv, rows, ids) ==
    IF dbv # "open" THEN Err("Cannot read properties of null")
    ELSE Ok(SelectSeq([i \in DOMAIN rows |-> [id |-> rows[i].id, vector |-> rows[i].vec]],
                      LAMBDA e : e.id \in ids))

\* stmt.all() of the documents JOIN embeddings scan, with the exclusion list.
SelectDocuments(dbv, rows, excludeIds) ==
    IF dbv # "open" THEN Err("Cannot read properties of null")
    ELSE Ok(SelectSeq(rows, LAMBDA d : d.id \notin excludeIds))

getEmbeddingsFromDB(dbv, rows, results) ==
    IF results = <<>> THEN <<>>
    ELSE LET embeddings == SelectEmbeddings(dbv, rows, {results[i].id : i \in DOMAIN results})
         IN  IF embeddings.ok THEN embeddings.val ELSE <<>>

\* The element-wise mean of the vectors, kept as the sum and the count; null
\* for no vectors.  The dimension is that of the first vector.
RECURSIVE VecSum(_, _)
VecSum(embeddings, dim) ==
    IF embeddings = <<>> THEN [i \in 1..dim |-> 0]
    ELSE LET rest == VecSum(Tail(embeddings), dim)
         IN  [i \in 1..dim |-> Head(embeddings).vector[i] + rest[i]]

\* The null that computeCentroid returns for no vectors.
NullCentroid == [sum |-> <<>>, count |-> 0]

\* A centroid that is the zero vector for no vectors.
computeCentroid_ZeroVector(embeddings) ==
    IF embeddings = <<>> THEN [sum |-> <<>>, count |-> 1]
    ELSE [sum |-> VecSum(embeddings, Len(embeddings[1].vector)), count |-> Len(embeddings)]

computeCentroid(embeddings) ==
    IF embeddings = <<>> THEN NullCentroid
    ELSE [sum |-> VecSum(embeddings, Len(embeddings[1].vector)), count |-> Len(embeddings)]

\* The cosine of a document vector with a centroid: the mean sum/count has the
\* direction of the sum, and the cosine does not depend on the positive count.
CentroidSimilarity(centroid, docVector) == calculateCosineSimilarity(centroid.sum, docVector)

findSimilarByEmbedding(dbv, rows, queryVector, excludeIds, threshold, limit) ==
    IF queryVector = NullCentroid THEN <<>>
    ELSE LET allDocuments == SelectDocuments(dbv, rows, excludeIds)
         IN  IF ~allDocuments.ok THEN <<>>
             ELSE LET docs == allDocuments.val
                      sims == [i \in DOMAIN docs |-> CentroidSimilarity(queryVector, docs[i].vec)]
                  IN  IF \E i \in DOMAIN sims : ~sims[i].ok THEN <<>>
                      ELSE LET resultsWithSimilarity ==
                                   [i \in DOMAIN docs |-> Scored(docs[i], sims[i].val)]
                               filteredResults ==
                                   SortDesc(FilterAtLeast(resultsWithSimilarity, threshold))
                           IN  SliceTo(filteredResults, limit)

\* A threshold whose upper tier starts at an average of exactly 0.6.
relatedThreshold_TierAtSixty(mainResults) ==
    LET total == SumSeq([i \in DOMAIN mainResults |-> ToHundredths(mainResults[i].similarity)])
        count == Len(mainResults)
    IN  IF total >= 60 * count THEN 48
        ELSE IF total < 40 * count THEN 42
        ELSE 45

\* The adaptive threshold, in hundredths, from the main results' similarities.
relatedThreshold(mainResults) ==
    LET total == SumSeq([i \in DOMAIN mainResults |-> ToHundredths(mainResults[i].similarity)])
        count == Len(mainResults)
    IN  IF total > 60 * count THEN 48
        ELSE IF total < 40 * count THEN 42
        ELSE 45

\* The final cap of findRelatedDocuments.
MaxRelated == 6
\* The cap of findSimilarByEmbedding, before classification.
MaxCandidates == 10

\* A final cap off by one.
CapRelated_OneMore(classifiedDocs) == SliceTo(classifiedDocs, MaxRelated + 1)

CapRelated(classifiedDocs) == SliceTo(classifiedDocs, MaxRelated)

findRelatedDocuments(dbv, rows, mainResults, originalQuery) ==
    IF mainResults = <<>> THEN <<>>
    ELSE LET usedIds == {mainResults[i].id : i \in DOMAIN mainResults}
             topResults == SliceTo(mainResults, 3)
             embeddings == getEmbeddingsFromDB(dbv, rows, topResults)
         IN  IF embeddings = <<>> THEN <<>>
             ELSE LET centroid == computeCentroid(embeddings)
                      relatedDocs ==
                          findSimilarByEmbedding(dbv, rows, centroid, usedIds,
                                                 relatedThreshold(mainResults), MaxCandidates)
                      classifiedDocs ==
                          classifyRelationships(relatedDocs, mainResults, originalQuery)
                  IN  CapRelated(classifiedDocs)

(***************************************************************************)
(* Inputs of the related-document specification: corpora whose vectors,    *)
(* titles and contents cycle through a palette, and main results that are   *)
(* a run of consecutive ids (the last of which may be absent from the       *)
(* store) with non-increasing similarities drawn from MainSims, as the      *)
(* head of a search result is.                                              *)
(***************************************************************************)
MaxRelatedDocs == 11
MaxMain == 4

Palettes ==
    { << <<1, 0>> >>,
      << <<1, 0>>, <<0, 1>>, <<1, 1>> >>,
      << <<1, 0>>, <<6, 11>>, <<2, 1>>, <<1, 2>>, <<1, 0>>, <<1, 1>>, <<0, 1>>,
         <<2, 1>>, <<1, 0>>, <<1, 2>>, <<0, 0>>, <<-1, 0>> >> }

TitleCycle ==
    << {"Overview"}, {"Migrating", "SwiftUI"}, {"SwiftUI"}, {"Sample"}, {"iOS", "Overview"} >>

ContentCycle == << <<>>, <<Decl, Decl>>, <<"text">> >>

Cycle(s, i) == s[((i - 1) % Len(s)) + 1]

RelatedCorpus(n, palette) ==
    [i \in 1..n |-> Doc(i, Cycle(TitleCycle, i), Cycle(ContentCycle, i), Cycle(palette, i))]

RelatedCorpora == {RelatedCorpus(n, palette) : n \in 1..MaxRelatedDocs, palette \in Palettes}

MainSims == {30, 40, 60, 70}

\* The main result with id i: the stored document's fields when it is stored.
MainResult(rows, i, h) ==
    IF i \in DOMAIN rows
    THEN Scored(rows[i], FromHundredths(h))
    ELSE [id |-> i, title |-> {"UIKit"}, content |-> <<>>, similarity |-> FromHundredths(h)]

InitRelated ==
    /\ corpus \in RelatedCorpora
    /\ db = "open"
    /\ initialized = TRUE
    /\ openaiInitialized = TRUE
    /\ inflight = {}
    /\ call = NoCall
    /\ embeddingCalls = 0
    /\ cache = <<>>
    /\ ServerIdle
    /\ NotInstalled

\* One call of findRelatedDocuments.
FindRelated ==
    /\ call = NoCall
    /\ \E k \in 0..MaxMain, start \in DOMAIN corpus :
         \E hs \in {h \in [1..k -> MainSims] : \A j \in 1..(k - 1) : h[j] >= h[j + 1]} :
            LET mainResults == [j \in 1..k |-> MainResult(corpus, start + j - 1, hs[j])]
            IN  /\ call' = [op |-> "related", mainResults |-> mainResults,
                            originalQuery |-> {"SwiftUI"},
                            ret |-> findRelatedDocuments(db, corpus, mainResults, {"SwiftUI"})]
                /\ UNCHANGED <<corpus, installVars, apiVars, engineVars, inflight, serverVars>>

NextRelated == FindRelated

SpecRelated == InitRelated /\ [][NextRelated]_vars

(***************************************************************************)
(* What the claims about related documents say, stated on the call.         *)
(***************************************************************************)
RelatedCalled == call.op = "related"

MainIds == {call.mainResults[j].id : j \in DOMAIN call.mainResults}

\* The sum of the stored vectors of the first three main results.
TopIds == {call.mainResults[j].id : j \in DOMAIN call.mainResults \cap 1..3}
TopRows == {i \in DOMAIN corpus : corpus[i].id \in TopIds}
TopSum == [c \in 1..2 |-> SumSeq([i \in DOMAIN corpus |->
                                     IF i \in TopRows THEN corpus[i].vec[c] ELSE 0])]

\* The tier of the average main similarity, in hundredths.
MainTotal ==
    SumSeq([j \in DOMAIN call.mainResults |-> ToHundredths(call.mainResults[j].similarity)])

Tier ==
    IF MainTotal > 60 * Len(call.mainResults) THEN 48
    ELSE IF MainTotal < 40 * Len(call.mainResults) THEN 42
    ELSE 45

\* The similarity of row i to the centroid whose direction is `sum`.
ToCentroid(sum, i) == calculateCosineSimilarity(sum, corpus[i].vec).val

\* The rows outside the main results that are at least Tier close to the centroid.
Neighbours ==
    IF call.mainResults = <<>> \/ TopRows = {} THEN {}
    ELSE LET sum == TopSum
             tier == FromHundredths(Tier)
             used == MainIds
         IN  {i \in DOMAIN corpus :
                corpus[i].id \notin used /\ SimGeq(ToCentroid(sum, i), tier)}

\* C6: findRelatedDocuments returns at most 6 results, and none of them has
\* an id that is present in the input results.
Thm_C6_RelatedCapAndExclusion ==
    RelatedCalled =>
        /\ Len(call.ret) <= 6
        /\ \A j \in DOMAIN call.ret : call.ret[j].id \notin MainIds

\* C6's case: more than six documents pass the threshold, and four stored
\* main results are given, so that an id beyond the top three is excluded too.
Witness_C6 ==
    /\ RelatedCalled
    /\ Cardinality(Neighbours) > 6
    /\ Len(call.ret) = 6
    /\ Len(call.mainResults) = 4
    /\ MainIds \subseteq {corpus[i].id : i \in DOMAIN corpus}

\* C7: the threshold is decided by the average similarity of the input
\* results alone: 0.48 above 0.6, 0.42 below 0.4, 0.45 otherwise (0.4 and 0.6
\* included); the returned documents are the (at most 6) closest of the
\* documents whose similarity to the centroid is at least that threshold,
\* each with that similarity, in non-increasing similarity order.
Thm_C7_AdaptiveThreshold ==
    RelatedCalled =>
        LET R == call.ret
            N == Neighbours
            sum == TopSum
            returned == {R[j].id : j \in DOMAIN R}
        IN  /\ \A j \in DOMAIN R :
                 \E i \in N :
                    corpus[i].id = R[j].id /\ R[j].similarity = ToCentroid(sum, i)
            /\ Len(R) = Min(6, Cardinality(N))
            /\ \A j \in 1..(Len(R) - 1) : SimGeq(R[j].similarity, R[j + 1].similarity)
            /\ \A i \in N :
                 corpus[i].id \notin returned =>
                    \A j \in DOMAIN R : ~SimGt(ToCentroid(sum, i), R[j].similarity)

\* C7's case: an average of exactly 0.6 takes the middle threshold, which
\* admits a document whose similarity lies between 0.45 and 0.48.
Witness_C7 ==
    /\ RelatedCalled
    /\ Len(call.mainResults) >= 2
    /\ MainTotal = 60 * Len(call.mainResults)
    /\ Tier = 45
    /\ \E j \in DOMAIN call.ret :
         /\ SimGeq(call.ret[j].similarity, FromHundredths(45))
         /\ ~SimGeq(call.ret[j].similarity, FromHundredths(48))

(***************************************************************************)
(* The engine's lifecycle and its store-reading methods.  Each method is    *)
(* given the engine's fields (initd = this.initialized, dbv = this.db) and  *)
(* the rows of the store.                                                   *)
(***************************************************************************)
NotInitialized == Err("Engine not initialized. Call init() first.")
NullHandle == Err("Cannot read properties of null")
SqliteError == Err("SqliteError")

\* What this.db.prepare(...).all() or .get() throws when the handle dbv is not
\* an open, readable database: a TypeError on the null handle, and SQLite's
\* own error when the file behind an open handle cannot be read.
ReadError(dbv) == IF dbv = "null" THEN NullHandle ELSE SqliteError

\* JavaScript's null, as a value that compares with row objects.
Null == [null |-> TRUE]

\* The row object that getDocument and getDocuments return.
Row(d) == [id |-> d.id, title |-> d.title, content |-> d.content]

getDocument(initd, dbv, rows, id) ==
    IF ~initd THEN NotInitialized
    ELSE IF dbv # "open" THEN ReadError(dbv)
    ELSE IF \E i \in DOMAIN rows : rows[i].id = id
         THEN Ok(Row(rows[CHOOSE i \in DOMAIN rows : rows[i].id = id]))
         ELSE Ok(Null)

\* A getDocuments that looks each requested id up on its own.
getDocuments_PerRequestedId(initd, dbv, rows, ids) ==
    IF ~initd THEN NotInitialized
    ELSE IF dbv # "open" THEN ReadError(dbv)
    ELSE LET hits == SelectSeq(ids, LAMBDA id : \E i \in DOMAIN rows : rows[i].id = id)
         IN  Ok([j \in DOMAIN hits |->
                   Row(rows[CHOOSE i \in DOMAIN rows : rows[i].id = hits[j]])])

getDocuments(initd, dbv, rows, ids) ==
    IF ~initd THEN NotInitialized
    ELSE IF dbv # "open" THEN ReadError(dbv)
    ELSE LET found == SelectSeq(rows, LAMBDA d : d.id \in Range(ids))
         IN  Ok([i \in DOMAIN found |-> Row(found[i])])

getStats(initd, dbv, rows) ==
    IF ~initd THEN NotInitialized
    ELSE IF dbv # "open" THEN ReadError(dbv)
    ELSE Ok([totalDocuments |-> Len(rows),
             sampleTitles |-> [i \in 1..Min(5, Len(rows)) |-> rows[i].title]])

\* extractCodeFromDocument up to the call of extractCodeExamples: the value is
\* the document whose content the examples are extracted from.
extractCodeFromDocument(initd, dbv, rows, docId) ==
    IF ~initd THEN NotInitialized
    ELSE LET doc == getDocument(initd, dbv, rows, docId)
         IN  IF ~doc.ok THEN doc
             ELSE IF doc.val = Null THEN Err("Document not found")
             ELSE Ok([examplesOf |-> doc.val.id])

\* The checks of search before it awaits the embedding.
searchEntry(initd, openaid) ==
    IF ~initd THEN NotInitialized
    ELSE IF ~openaid THEN Err("OpenAI not initialized. Search requires OPENAI_API_KEY.")
    ELSE Ok("await getEmbedding")

\* search after the embedding has arrived: this.db.prepare, then the scan.
searchResume(dbv, rows, queryVector, limit, minSimilarity) ==
    IF dbv # "open" THEN ReadError(dbv)
    ELSE searchScan(rows, queryVector, limit, minSimilarity)

\* The error getEmbedding throws for a failure of the embedding service.
embeddingError(failure) ==
    CASE failure = "401" -> Err("Invalid OpenAI API key. Check OPENAI_API_KEY.")
      [] failure = "429" -> Err("OpenAI API rate limit exceeded. Please try later.")
      [] failure \in {"ETIMEDOUT", "ECONNRESET"} -> Err("OpenAI connection timeout. Please try later.")
      [] OTHER -> Err("Failed to get embedding")

EmbeddingFailures == {"401", "429", "ETIMEDOUT", "ECONNRESET", "other"}

(***************************************************************************)
(* CompatibilityAnalyzer.  The cache is a Map from document id to the       *)
(* compatibility object of the first successful analysis of that id.  Of    *)
(* the compatibility object the model keeps the deprecation finding, the    *)
(* one part whose computation can throw: detectDeprecation lower-cases the  *)
(* title of every document with a non-empty content, and a NULL title has   *)
(* no toLowerCase.  parsePlatforms and parseTechnologies catch their own    *)
(* errors; extractRequirements and extractLimitations read the content      *)
(* only.                                                                    *)
(***************************************************************************)
\* A title column that is NULL in the store: titles are sets of words, and
\* this one holds the marker alone.
NullTitle == {"NULL"}

Deprecated == "// deprecated"
InsteadUse == "instead, use"

\* getEmptyCompatibility
EmptyCompatibility == [supported |-> <<>>, deprecation |-> Null]

\* detectDeprecation(title, content)
detectDeprecation(title, content) ==
    IF content = <<>> THEN Ok(Null)
    ELSE IF title = NullTitle THEN Err("Cannot read properties of null (reading 'toLowerCase')")
    ELSE IF Deprecated \in Range(content) THEN Ok([status |-> "deprecated"])
    ELSE IF InsteadUse \in Range(content) THEN Ok([status |-> "superseded"])
    ELSE IF includes(toLowerCase(title), "deprecated")
            \/ includes(toLowerCase(title), "migrating")
    THEN Ok([status |-> "migration_guide"])
    ELSE Ok(Null)

\* The body of the try block of analyze: the compatibility object, or what
\* is thrown while building it.
buildCompatibility(doc) ==
    LET deprecation == detectDeprecation(doc.title, doc.content)
    IN  IF ~deprecation.ok THEN deprecation
        ELSE Ok([supported |-> <<>>, deprecation |-> deprecation.val])

\* Map.prototype.set
MapSet(map, key, value) ==
    [k \in DOMAIN map \cup {key} |-> IF k = key THEN value ELSE map[k]]

\* The maxSize that getCacheStats reports.
CacheMaxSize == 1000

\* An analyze that keeps the cache at no more than `maxSize` entries by
\* dropping the oldest (lowest) id.
analyze_Evicting(map, doc) ==
    IF doc.id \in DOMAIN map
    THEN [compatibility |-> map[doc.id], cache |-> map, ok |-> TRUE]
    ELSE LET compatibility == buildCompatibility(doc)
         IN  IF compatibility.ok
             THEN LET full == MapSet(map, doc.id, compatibility.val)
                      first == CHOOSE k \in DOMAIN full : \A j \in DOMAIN full : k <= j
                  IN  [compatibility |-> compatibility.val, ok |-> TRUE,
                       cache |-> IF Cardinality(DOMAIN full) > CacheMaxSize
                                 THEN [k \in DOMAIN full \ {first} |-> full[k]]
                                 ELSE full]
             ELSE [compatibility |-> EmptyCompatibility, cache |-> map, ok |-> FALSE]

\* analyze(doc) on the cache `map`: what it returns, the cache it leaves, and
\* whether the analysis succeeded (a hit counts as success).
analyze(map, doc) ==
    IF doc.id \in DOMAIN map
    THEN [compatibility |-> map[doc.id], cache |-> map, ok |-> TRUE]
    ELSE LET compatibility == buildCompatibility(doc)
         IN  IF compatibility.ok
             THEN [compatibility |-> compatibility.val, ok |-> TRUE,
                   cache |-> MapSet(map, doc.id, compatibility.val)]
             ELSE [compatibility |-> EmptyCompatibility, cache |-> map, ok |-> FALSE]

\* getCacheStats
getCacheStats(map) == [size |-> Cardinality(DOMAIN map), maxSize |-> CacheMaxSize]

\* A scoring pass in which the first failed analysis ends the annotation:
\* the documents after it get no compatibility.
annotateAll_StopsAtFailure(map, docs) ==
    LET Step(acc, doc) ==
            IF acc.failed
            THEN [acc EXCEPT !.compatibility = Append(@, Null)]
            ELSE LET a == analyze(acc.cache, doc)
                 IN  [compatibility |-> Append(acc.compatibility, a.compatibility),
                      cache |-> a.cache, failed |-> ~a.ok]
        F[n \in 0..Len(docs)] ==
            IF n = 0 THEN [compatibility |-> <<>>, cache |-> map, failed |-> FALSE]
            ELSE Step(F[n - 1], docs[n])
    IN  [compatibility |-> F[Len(docs)].compatibility, cache |-> F[Len(docs)].cache]

\* The compatibility part of search's allDocuments.map: analyze is called
\* for each document in row order.  analyze throws nothing, so the catch
\* around the call, which would leave `compatibility = null`, has nothing to
\* catch.
annotateAll(map, docs) ==
    LET F[n \in 0..Len(docs)] ==
            IF n = 0 THEN [compatibility |-> <<>>, cache |-> map]
            ELSE LET a == analyze(F[n - 1].cache, docs[n])
                 IN  [compatibility |-> Append(F[n - 1].compatibility, a.compatibility),
                      cache |-> a.cache]
    IN  F[Len(docs)]

\* The documents that allDocuments.map visits before calculateCosineSimilarity
\* throws (all of them when it does not).
Visited(allDocuments, queryVector) ==
    LET bad == {i \in DOMAIN allDocuments : Len(allDocuments[i].vec) # Len(queryVector)}
    IN  IF bad = {} THEN allDocuments
        ELSE SubSeq(allDocuments, 1, (CHOOSE i \in bad : \A j \in bad : i <= j) - 1)

\* The cache after the scan of a search (the scan throws before the map when
\* the store cannot be read).
cacheAfterScan(map, dbv, allDocuments, queryVector) ==
    IF dbv # "open" THEN map
    ELSE annotateAll(map, Visited(allDocuments, queryVector)).cache

\* search from the scan on, with the compatibility annotation of each result:
\* the value returned and the cache left behind.
searchAnnotated(map, allDocuments, queryVector, limit, minSimilarity) ==
    LET scored == searchScan(allDocuments, queryVector, limit, minSimilarity)
        annotated == annotateAll(map, Visited(allDocuments, queryVector))
        RowOf(id) == CHOOSE i \in DOMAIN allDocuments : allDocuments[i].id = id
    IN  [cache |-> annotated.cache,
         ret |-> IF ~scored.ok THEN scored
                 ELSE Ok([j \in DOMAIN scored.val |->
                            [id |-> scored.val[j].id,
                             similarity |-> scored.val[j].similarity,
                             compatibility |->
                                 annotated.compatibility[RowOf(scored.val[j].id)]]])]

(***************************************************************************)
(* The engine specification: init, close and the methods in any order, on   *)
(* a fixed store.                                                           *)
(***************************************************************************)
MaxPending == 1
MaxEmbeddingCalls == 2

EngineCorpus ==
    << Doc(1, {"SwiftUI", "Overview"}, <<"text">>, <<1, 0>>),
       Doc(2, {"Migrating"}, <<Decl, Decl>>, <<3, 4>>),
       Doc(3, {"Metal"}, <<>>, <<0, 1>>),
       Doc(4, {"Sample"}, <<"text">>, <<4, 3>>) >>

EngineIds == 1..(Len(EngineCorpus) + 1)
EngineIdLists == { <<1>>, <<2, 1>>, <<5>>, <<3, 5, 3>> }
EngineLimits == {1, 10}
EngineFloors == {30, 75}
EngineMainLists ==
    { <<>>,
      << MainResult(EngineCorpus, 1, 70) >>,
      << MainResult(EngineCorpus, 2, 60), MainResult(EngineCorpus, 5, 40) >> }

\* What a finished call records: the method, whether the store handle was
\* open when it was called, whether the reads of the call failed on an open
\* handle, and what it returned or threw.
Called(op, ret) ==
    [op |-> op, open |-> db # "null", readFails |-> db = "failing", ret |-> ret]

\* The same, with the argument of the call.
CalledWith(op, arg, ret) ==
    [op |-> op, arg |-> arg, open |-> db # "null", readFails |-> db = "failing",
     ret |-> ret]

InitEngine ==
    /\ corpus = EngineCorpus
    /\ db = "null"
    /\ initialized = FALSE
    /\ openaiInitialized = FALSE
    /\ inflight = {}
    /\ call = NoCall
    /\ embeddingCalls = 0
    /\ cache = <<>>
    /\ ServerIdle
    /\ NotInstalled

\* init(true): open the database, then the OpenAI client when a key is set.
EngineInit ==
    \E opens \in BOOLEAN, apiKey \in BOOLEAN :
        /\ IF opens
           THEN /\ db' = "open"
                /\ initialized' = TRUE
                /\ openaiInitialized' = (openaiInitialized \/ apiKey)
                /\ call' = Called("init", Ok("undefined"))
           ELSE /\ UNCHANGED <<db, initialized, openaiInitialized>>
                /\ call' = Called("init", Err("unable to open database file"))
        /\ UNCHANGED <<corpus, installVars, apiVars, inflight, serverVars>>

\* close()
EngineClose ==
    /\ db' = "null"
    /\ initialized' = FALSE
    /\ call' = Called("close", Ok("undefined"))
    /\ UNCHANGED <<corpus, installVars, apiVars, openaiInitialized, inflight, serverVars>>

\* The database file behind the open handle becomes unreadable (removed
\* table, corrupt page, I/O error): from now on every read throws.
EngineStoreFails ==
    /\ db = "open"
    /\ db' = "failing"
    /\ UNCHANGED <<corpus, installVars, apiVars, initialized, openaiInitialized, inflight, call, serverVars>>

\* search(query, limit, minSimilarity) up to `await this.getEmbedding(query)`.
EngineSearchStart ==
    \E limit \in EngineLimits, minSimilarity \in EngineFloors :
        LET entry == searchEntry(initialized, openaiInitialized)
            pending == [n |-> embeddingCalls + 1, limit |-> limit,
                        minSimilarity |-> minSimilarity, open |-> db # "null"]
        IN  /\ Cardinality(inflight) < MaxPending
            /\ embeddingCalls < MaxEmbeddingCalls
            /\ IF entry.ok
               THEN /\ inflight' = inflight \cup {pending}
                    /\ embeddingCalls' = embeddingCalls + 1
                    /\ UNCHANGED call
               ELSE /\ call' = Called("search", entry)
                    /\ UNCHANGED <<inflight, embeddingCalls>>
            /\ UNCHANGED <<corpus, installVars, cache, engineVars, serverVars>>

\* The embedding arrives and the suspended search scans the corpus.
EngineSearchResume ==
    \E s \in inflight, queryVector \in {<<1, 0>>, <<1, 1>>} :
        /\ inflight' = inflight \ {s}
        /\ call' = [op |-> "search", open |-> s.open, readFails |-> db = "failing",
                    n |-> s.n, failure |-> "none", scanned |-> db = "open",
                    ret |-> searchResume(db, corpus, queryVector, s.limit, s.minSimilarity)]
        /\ cache' = cacheAfterScan(cache, db, corpus, queryVector)
        /\ UNCHANGED <<corpus, installVars, embeddingCalls, engineVars, serverVars>>

\* A search that answers a failed embedding call by calling the service again.
EngineSearchFail_Retries ==
    \E s \in inflight :
        /\ embeddingCalls < MaxEmbeddingCalls
        /\ embeddingCalls' = embeddingCalls + 1
        /\ UNCHANGED <<corpus, installVars, cache, inflight, call, engineVars, serverVars>>

\* The embedding call fails and the suspended search throws.
EngineSearchFail ==
    \E s \in inflight, failure \in EmbeddingFailures :
        /\ inflight' = inflight \ {s}
        /\ call' = [op |-> "search", open |-> s.open, readFails |-> FALSE,
                    n |-> s.n, failure |-> failure, scanned |-> FALSE,
                    ret |-> embeddingError(failure)]
        /\ UNCHANGED <<corpus, installVars, apiVars, engineVars, serverVars>>

EngineGetDocument ==
    \E id \in EngineIds :
        /\ call' = CalledWith("getDocument", id, getDocument(initialized, db, corpus, id))
        /\ UNCHANGED <<corpus, installVars, apiVars, engineVars, inflight, serverVars>>

EngineGetDocuments ==
    \E ids \in EngineIdLists :
        /\ call' = CalledWith("getDocuments", ids,
                               getDocuments(initialized, db, corpus, ids))
        /\ UNCHANGED <<corpus, installVars, apiVars, engineVars, inflight, serverVars>>

EngineGetStats ==
    /\ call' = Called("getStats", getStats(initialized, db, corpus))
    /\ UNCHANGED <<corpus, installVars, apiVars, engineVars, inflight, serverVars>>

EngineExtractCode ==
    \E docId \in EngineIds :
        /\ call' = Called("extractCodeFromDocument",
                          extractCodeFromDocument(initialized, db, corpus, docId))
        /\ UNCHANGED <<corpus, installVars, apiVars, engineVars, inflight, serverVars>>

EngineFindRelated ==
    \E mainResults \in EngineMainLists :
        /\ call' = [op |-> "findRelatedDocuments", open |-> db # "null",
                    readFails |-> (db = "failing" /\ mainResults # <<>>),
                    ret |-> Ok(findRelatedDocuments(db, corpus, mainResults, {"SwiftUI"}))]
        /\ UNCHANGED <<corpus, installVars, apiVars, engineVars, inflight, serverVars>>

NextEngine ==
    \/ EngineInit
    \/ EngineClose
    \/ EngineStoreFails
    \/ EngineSearchStart
    \/ EngineSearchResume
    \/ EngineSearchFail
    \/ EngineGetDocument
    \/ EngineGetDocuments
    \/ EngineGetStats
    \/ EngineExtractCode
    \/ EngineFindRelated

SpecEngine == InitEngine /\ [][NextEngine]_vars

StoreReaders ==
    {"search", "findRelatedDocuments", "getDocument", "getDocuments", "getStats",
     "extractCodeFromDocument"}

\* C10: every engine operation that reads the store fails when the store
\* handle is not open (before init() or after close()); none of them returns
\* a normal result in that state.
Cex_C10_ClosedStoreFails ==
    (call.op \in StoreReaders /\ ~call.open) => ~call.ret.ok

\* C11: a store read failure inside an engine operation propagates to the
\* caller of that operation as a failure; it is never turned into a normal
\* (for instance empty) result.
Cex_C11_ReadFailurePropagates ==
    (call.op \in StoreReaders /\ call.readFails) => ~call.ret.ok

(***************************************************************************)
(* The MCP server: the tool handlers behind the concurrency-1 queue, each   *)
(* engine call raced against a timer by withTimeout.                        *)
(*                                                                          *)
(* Only `await this.getEmbedding` inside engine.search waits for an event   *)
(* outside the process.  Engine initialization, the document and statistics *)
(* methods and code mining are synchronous, and findRelatedDocuments awaits *)
(* only promises that are already settled, so each of them finishes before  *)
(* any timer or request callback can run: a handler runs from its admission *)
(* to the await of the embedding, or to its response, in one step.          *)
(*                                                                          *)
(* An error message is the set of its words: the literal fragments of the   *)
(* source and the words of the query or document id it embeds.              *)
(***************************************************************************)
MaxReq == 2

NoResponse == [kind |-> "none"]

\* convertToMcpError
convertToMcpError(message) ==
    IF includes(message, "401") THEN {"Invalid OpenAI API key"}
    ELSE IF includes(message, "429")
    THEN {"OpenAI API rate limit exceeded. Please try again later"}
    ELSE IF includes(message, "ETIMEDOUT") THEN {"OpenAI connection timeout"}
    ELSE message

\* The text of a document id inside a template literal.
String(id) == <<"0", "1", "2", "3", "4", "5", "6", "7", "8", "9">>[id + 1]

\* The operationName that a handler gives to withTimeout.
operationName(req) ==
    CASE req.tool = "search_docs" -> {"Search:"} \cup req.query
      [] req.tool = "get_doc" -> {"Retrieving document:", String(req.id)}
      [] req.tool = "get_stats" -> {"Retrieving statistics"}
      [] OTHER -> {"Extract code from document:", String(req.id)}

timeoutMs(req) ==
    CASE req.tool = "search_docs" -> "(30000ms)"
      [] req.tool = "get_doc" -> "(30000ms)"
      [] req.tool = "get_stats" -> "(10000ms)"
      [] OTHER -> "(15000ms)"

\* The Error that the timer of withTimeout rejects with.
timeoutError(req) == {"Operation timeout:", timeoutMs(req)} \cup operationName(req)

\* withTimeout's catch: what the handler sees for a thrown engine error.
Thrown(err) == Err(convertToMcpError({err}))

\* The ids of a result list.
IdsOf(results) == [i \in DOMAIN results |-> results[i].id]

\* What can become of the related-document step of a handler: its reads of
\* the store succeed, its reads fail, or the race of withTimeout rejects.
Discoveries == {"reads", "readFails", "rejects"}

\* Whether handleSearchDocs runs the related-document step.
discoveryRuns(req, results) == req.related /\ Len(results) > 0

\* The store as the reads of the related-document step find it.
discoveryStore(dbv, discovery) ==
    IF discovery = "readFails" /\ dbv = "open" THEN "failing" ELSE dbv

\* The response of handleSearchDocs for the search results and the related
\* documents found.
formatResponse(results, related, relatedError) ==
    Ok([total |-> Len(results), results |-> IdsOf(results),
        relatedDocuments |-> [i \in DOMAIN related |->
                                 [id |-> related[i].id,
                                  relationship |-> related[i].relationship]],
        relatedError |-> relatedError])

\* A handler whose related-document step has no try/catch of its own.
searchResponse_Unguarded(dbv, rows, req, results, discovery) ==
    IF discoveryRuns(req, results) /\ discovery = "rejects"
    THEN Err(convertToMcpError(timeoutError(req)))
    ELSE formatResponse(results,
                        IF discoveryRuns(req, results)
                        THEN findRelatedDocuments(discoveryStore(dbv, discovery), rows,
                                                  SliceTo(results, 3), req.query)
                        ELSE <<>>,
                        FALSE)

\* handleSearchDocs after the search has returned `results`.
searchResponse(dbv, rows, req, results, discovery) ==
    IF discoveryRuns(req, results)
    THEN IF discovery = "rejects"
         THEN formatResponse(results, <<>>, TRUE)
         ELSE formatResponse(results,
                             findRelatedDocuments(discoveryStore(dbv, discovery), rows,
                                                  SliceTo(results, 3), req.query),
                             FALSE)
    ELSE formatResponse(results, <<>>, FALSE)

\* handleGetDoc, handleGetStats and handleGetCodeExamples inside the queue.
syncResponse(initd, dbv, rows, req) ==
    CASE req.tool = "get_doc" ->
            LET documents == getDocument(initd, dbv, rows, req.id)
            IN  IF ~documents.ok THEN Thrown(documents.err)
                ELSE IF documents.val = Null
                THEN Ok([error |-> "Documents not found", found |-> 0])
                ELSE Ok([found |-> 1, documents |-> <<documents.val.id>>])
      [] req.tool = "get_stats" ->
            LET stats == getStats(initd, dbv, rows)
            IN  IF ~stats.ok THEN Thrown(stats.err)
                ELSE Ok([totalDocuments |-> stats.val.totalDocuments])
      [] OTHER ->
            LET examples == extractCodeFromDocument(initd, dbv, rows, req.id)
            IN  IF ~examples.ok THEN Thrown(examples.err)
                ELSE Ok([docId |-> req.id])

(***************************************************************************)
(* Inputs of the server specification.                                      *)
(***************************************************************************)
ServerQueries == { {"SwiftUI"}, {"401", "Overview"} }
ServerDocIds == {1, 5}
EmbedVecs == { <<1, 0>>, <<0, 1>> }
ServerFailures == {"401", "other"}
DefaultLimit == 10
DefaultMinSimilarity == 30

Requests ==
    { [tool |-> "search_docs", query |-> q, related |-> rel, id |-> 0] :
        q \in ServerQueries, rel \in BOOLEAN }
    \cup { [tool |-> t, query |-> {}, related |-> FALSE, id |-> i] :
            t \in {"get_doc", "get_code_examples"}, i \in ServerDocIds }
    \cup { [tool |-> "get_stats", query |-> {}, related |-> FALSE, id |-> 0] }

InitServer ==
    /\ corpus = EngineCorpus
    /\ db = "null"
    /\ initialized = FALSE
    /\ openaiInitialized = FALSE
    /\ inflight = {}
    /\ call = NoCall
    /\ embeddingCalls = 0
    /\ cache = <<>>
    /\ ServerIdle
    /\ NotInstalled

Finish(r, response, pc) ==
    [reqs EXCEPT ![r] = [@ EXCEPT !.pc = pc, !.response = response]]

\* A tool request arrives: the handler validates it and hands its body to
\* sqliteQueue.
Arrive ==
    \E args \in Requests :
        /\ Len(reqs) < MaxReq
        /\ reqs' = Append(reqs, [tool |-> args.tool, query |-> args.query,
                                 related |-> args.related, id |-> args.id,
                                 pc |-> "queued", response |-> NoResponse,
                                 primary |-> <<>>, discovery |-> "none"])
        /\ ops' = Append(ops, "none")
        /\ queue' = Append(queue, Len(reqs) + 1)
        /\ UNCHANGED <<corpus, installVars, apiVars, engineVars, inflight, call, searchEngine, initPromise,
                       activeCount>>

\* The body of the handler r, from `await this.initializeEngine()` with the
\* engine as (initd, dbv, openaid), to its response or to the await of the
\* embedding.
RunHandler(r, initd, dbv, openaid) ==
    IF reqs[r].tool = "search_docs"
    THEN LET entry == searchEntry(initd, openaid)
         IN  IF entry.ok
             THEN /\ reqs' = [reqs EXCEPT ![r].pc = "awaitSearch"]
                  /\ ops' = [ops EXCEPT ![r] = "running"]
                  /\ embeddingCalls' = embeddingCalls + 1
                  /\ activeCount' = 1
             ELSE /\ reqs' = Finish(r, Thrown(entry.err), "done")
                  /\ ops' = [ops EXCEPT ![r] = "failed"]
                  /\ UNCHANGED embeddingCalls
                  /\ activeCount' = 0
    ELSE LET response == syncResponse(initd, dbv, corpus, reqs[r])
         IN  /\ reqs' = Finish(r, response, "done")
             /\ ops' = [ops EXCEPT ![r] = IF response.ok THEN "done" ELSE "failed"]
             /\ UNCHANGED embeddingCalls
             /\ activeCount' = 0

\* An initializeEngine that starts over when the earlier attempt was rejected.
AdmitFirst_Retries ==
    /\ activeCount = 0
    /\ queue # <<>>
    /\ initPromise \in {"null", "rejected"}
    /\ queue' = Tail(queue)
    /\ searchEngine' = "engine"
    /\ \E opens \in BOOLEAN, apiKey \in BOOLEAN :
         IF opens
         THEN /\ initPromise' = "resolved"
              /\ db' = "open"
              /\ initialized' = TRUE
              /\ openaiInitialized' = apiKey
              /\ RunHandler(Head(queue), TRUE, "open", apiKey)
         ELSE /\ initPromise' = "rejected"
              /\ UNCHANGED <<db, initialized, openaiInitialized, ops, embeddingCalls>>
              /\ reqs' = Finish(Head(queue), Thrown("unable to open database file"), "done")
              /\ activeCount' = 0
    /\ UNCHANGED <<corpus, installVars, cache, inflight, call>>

\* The queue admits its first request while no engine exists:
\* initializeEngine creates the engine and runs init(true).
AdmitFirst ==
    /\ activeCount = 0
    /\ queue # <<>>
    /\ searchEngine = "null"
    /\ initPromise = "null"
    /\ queue' = Tail(queue)
    /\ searchEngine' = "engine"
    /\ \E opens \in BOOLEAN, apiKey \in BOOLEAN :
         IF opens
         THEN /\ initPromise' = "resolved"
              /\ db' = "open"
              /\ initialized' = TRUE
              /\ openaiInitialized' = apiKey
              /\ RunHandler(Head(queue), TRUE, "open", apiKey)
         ELSE /\ initPromise' = "rejected"
              /\ UNCHANGED <<db, initialized, openaiInitialized, ops, embeddingCalls>>
              /\ reqs' = Finish(Head(queue), Thrown("unable to open database file"), "done")
              /\ activeCount' = 0
    /\ UNCHANGED <<corpus, installVars, cache, inflight, call>>

\* The queue admits a request when the engine object exists: initializeEngine
\* returns this.searchEngine as it is.
Admit ==
    /\ activeCount = 0
    /\ queue # <<>>
    /\ searchEngine # "null"
    /\ queue' = Tail(queue)
    /\ RunHandler(Head(queue), initialized, db, openaiInitialized)
    /\ UNCHANGED <<corpus, installVars, cache, engineVars, inflight, call, searchEngine, initPromise>>

\* The outcome of the search of request r once its embedding call is settled.
Settle(r, outcome, discovery) ==
    /\ ops[r] = "running"
    /\ ops' = [ops EXCEPT ![r] = IF outcome.ok THEN "done" ELSE "failed"]
    /\ IF reqs[r].pc = "awaitSearch"
       THEN /\ reqs' = [reqs EXCEPT ![r] =
                          IF outcome.ok
                          THEN [@ EXCEPT !.pc = "done",
                                         !.response = searchResponse(db, corpus, reqs[r],
                                                                     outcome.val, discovery),
                                         !.primary = IdsOf(outcome.val),
                                         !.discovery = IF discoveryRuns(reqs[r], outcome.val)
                                                       THEN discovery ELSE "none"]
                          ELSE [@ EXCEPT !.pc = "done", !.response = Thrown(outcome.err)]]
            /\ activeCount' = 0
       ELSE UNCHANGED <<reqs, activeCount>>
    /\ UNCHANGED <<corpus, installVars, engineVars, inflight, call, searchEngine, initPromise, queue>>

\* A handler whose related-document step embeds the query once more.
EmbeddingArrives_ReEmbeds ==
    \E r \in DOMAIN reqs, queryVector \in EmbedVecs, discovery \in Discoveries :
        /\ Settle(r, searchResume(db, corpus, queryVector, DefaultLimit, DefaultMinSimilarity),
                  discovery)
        /\ cache' = cacheAfterScan(cache, db, corpus, queryVector)
        /\ embeddingCalls' = embeddingCalls
                + (IF reqs[r].pc = "awaitSearch" /\ reqs[r].related THEN 1 ELSE 0)

\* The embedding of r's query arrives: the search scans the corpus, and the
\* handler, if it still waits, builds its response.
EmbeddingArrives ==
    \E r \in DOMAIN reqs, queryVector \in EmbedVecs, discovery \in Discoveries :
        /\ Settle(r, searchResume(db, corpus, queryVector, DefaultLimit, DefaultMinSimilarity),
                  discovery)
        /\ cache' = cacheAfterScan(cache, db, corpus, queryVector)
        /\ UNCHANGED embeddingCalls

\* The embedding call of r fails.
EmbeddingFails ==
    \E r \in DOMAIN reqs, failure \in ServerFailures :
        /\ Settle(r, embeddingError(failure), "reads")
        /\ UNCHANGED apiVars

\* A timer that also stops the operation it raced against.
TimerFires_Cancels(r) ==
    /\ reqs[r].pc = "awaitSearch"
    /\ reqs' = Finish(r, Err(convertToMcpError(timeoutError(reqs[r]))), "timedout")
    /\ ops' = [ops EXCEPT ![r] = "failed"]
    /\ activeCount' = 0
    /\ UNCHANGED <<corpus, installVars, apiVars, engineVars, inflight, call, searchEngine, initPromise, queue>>

\* A timer whose rejection reaches the caller without ending the handler's
\* turn in the queue.
TimerFires_KeepsSlot(r) ==
    /\ reqs[r].pc = "awaitSearch"
    /\ reqs' = Finish(r, Err(convertToMcpError(timeoutError(reqs[r]))), "timedout")
    /\ UNCHANGED <<corpus, installVars, apiVars, engineVars, inflight, call, searchEngine, initPromise, queue,
                   ops, activeCount>>

\* The timer of withTimeout fires while handler r awaits its search: the race
\* rejects, the handler throws and the queue slot is released.
TimerFires(r) ==
    /\ reqs[r].pc = "awaitSearch"
    /\ reqs' = Finish(r, Err(convertToMcpError(timeoutError(reqs[r]))), "timedout")
    /\ activeCount' = 0
    /\ UNCHANGED <<corpus, installVars, apiVars, engineVars, inflight, call, searchEngine, initPromise, queue, ops>>

Timeout == \E r \in DOMAIN reqs : TimerFires(r)

NextServer ==
    \/ Arrive
    \/ AdmitFirst
    \/ Admit
    \/ EmbeddingArrives
    \/ EmbeddingFails
    \/ Timeout

SpecServer == InitServer /\ [][NextServer]_vars

Running == {r \in DOMAIN ops : ops[r] = "running"}

\* C1: at most one engine operation is in progress at any time: the engine
\* operation of a later request never starts while one started for an
\* earlier request is still running.
Cex_C1_OneOperationAtATime == Cardinality(Running) <= 1

\* C2: when the timer of withTimeout fires before the operation has completed,
\* the caller is given a failure and the operation is not cancelled: it stays
\* running, and it leaves that state only by completing or failing on the
\* settlement of its own embedding call, after the failure was reported.
Thm_C2_SoftTimeout ==
    [][\A r \in DOMAIN reqs :
          /\ (reqs[r].pc = "awaitSearch" /\ reqs'[r].pc = "timedout")
                => (~reqs'[r].response.ok /\ ops[r] = "running" /\ ops'[r] = "running")
          /\ (reqs[r].pc = "timedout" /\ ops[r] = "running" /\ ops'[r] # "running")
                => (ops'[r] \in {"done", "failed"} /\ reqs'[r] = reqs[r])]_vars

\* C2's case: a request that was answered with the timeout failure, whose
\* search has since run to completion in the background.
Witness_C2 ==
    \E r \in DOMAIN reqs :
        /\ reqs[r].pc = "timedout"
        /\ ~reqs[r].response.ok
        /\ ops[r] = "done"

\* C3: if the timer fires before the operation completes, the error surfaced
\* to the caller is the timeout error of that operation, whatever the query
\* string or document id.
Cex_C3_TimeoutErrorSurfaced ==
    \A r \in DOMAIN reqs :
        reqs[r].pc = "timedout" => reqs[r].response = Err(timeoutError(reqs[r]))

\* The requests whose handler has called engine.search past its entry checks.
Embedded == {r \in DOMAIN reqs : reqs[r].pc \in {"awaitSearch", "timedout"}
                                  \/ (reqs[r].tool = "search_docs" /\ reqs[r].pc = "done"
                                      /\ ops[r] # "none"
                                      /\ reqs[r].response
                                            \notin {Thrown(NotInitialized.err),
                                                     Thrown(searchEntry(TRUE, FALSE).err)})}

\* C13: related-document discovery never calls the embedding service: the
\* embedding calls made so far are one for each request whose search got
\* past its entry checks, whether or not the request asked for related
\* documents, and the step in which a handler finds the related documents
\* of its results makes none.
Thm_C13_RelatedMakesNoEmbeddingCall ==
    embeddingCalls = Cardinality(Embedded)

\* C13's case: a search_docs request with related documents enabled has been
\* answered with a related document, after one embedding call.
Witness_C13 ==
    \E r \in DOMAIN reqs :
        /\ reqs[r].related
        /\ reqs[r].pc = "done"
        /\ reqs[r].response.ok
        /\ reqs[r].response.val.relatedDocuments # <<>>
        /\ embeddingCalls = 1

\* C14: a search makes no external API call: handling search_docs requests
\* involves the local database only, so the embedding service is never
\* called.
Cex_C14_SearchMakesNoApiCall == embeddingCalls = 0

\* C15: every search_docs request with related documents enabled that is
\* answered with results carries between 3 and 6 related documents.
Cex_C15_ThreeToSixRelated ==
    \A r \in DOMAIN reqs :
        (reqs[r].tool = "search_docs" /\ reqs[r].related /\ reqs[r].pc = "done"
            /\ reqs[r].response.ok)
        => Len(reqs[r].response.val.relatedDocuments) \in 3..6

\* The stored rows with the id `id`.
Stored(id) == {i \in DOMAIN corpus : corpus[i].id = id}

\* How many entries of the sequence s have the id `id`.
Occurrences(s, id) == Cardinality({j \in DOMAIN s : s[j].id = id})

\* C16: on an open, readable store a request for an absent id is no error:
\* getDocument returns null for an absent id and the document for a stored
\* one; getDocuments returns the stored documents whose id is in the list,
\* each once, and leaves the absent ids out, without throwing.
Thm_C16_AbsentIdIsNotAnError ==
    (call.op \in {"getDocument", "getDocuments"} /\ call.open /\ ~call.readFails) =>
        /\ call.ret.ok
        /\ call.op = "getDocument" =>
              IF Stored(call.arg) = {} THEN call.ret.val = Null
              ELSE \E i \in Stored(call.arg) : call.ret.val = Row(corpus[i])
        /\ call.op = "getDocuments" =>
              /\ \A i \in DOMAIN corpus :
                    Occurrences(call.ret.val, corpus[i].id)
                      = IF corpus[i].id \in Range(call.arg) THEN 1 ELSE 0
              /\ \A j \in DOMAIN call.ret.val :
                    \E i \in DOMAIN corpus : call.ret.val[j] = Row(corpus[i])

\* C16's case: three ids were requested, one of them twice and one absent
\* from the store, and the one stored document came back once.
Witness_C16 ==
    /\ call.op = "getDocuments"
    /\ call.arg = <<3, 5, 3>>
    /\ call.ret.ok
    /\ Len(call.ret.val) = 1

(***************************************************************************)
(* The engine and the embedding service.                                    *)
(***************************************************************************)
\* The message of the error a search must throw for a failure of the
\* embedding service.
Translated(failure) ==
    CASE failure = "401" -> "Invalid OpenAI API key. Check OPENAI_API_KEY."
      [] failure = "429" -> "OpenAI API rate limit exceeded. Please try later."
      [] failure = "ETIMEDOUT" -> "OpenAI connection timeout. Please try later."
      [] failure = "ECONNRESET" -> "OpenAI connection timeout. Please try later."
      [] OTHER -> "Failed to get embedding"

\* C12: each search calls the embedding service exactly once: a call to the
\* service is made only by a search that starts, one per search, and a search
\* ends without another call.  If the call fails, the search throws the
\* translated failure, and the corpus is not scanned (the analyzer cache,
\* which the scan fills, is left as it was).
Thm_C12_EmbeddingOnceNoRetry ==
    [][/\ embeddingCalls' # embeddingCalls =>
            /\ embeddingCalls' = embeddingCalls + 1
            /\ \E s \in inflight' \ inflight :
                  s.n = embeddingCalls' /\ inflight' = inflight \cup {s}
       /\ \A s \in inflight \ inflight' :
            /\ embeddingCalls' = embeddingCalls
            /\ call'.op = "search" /\ call'.n = s.n
            /\ call'.failure # "none" =>
                  /\ call'.ret = Err(Translated(call'.failure))
                  /\ ~call'.scanned
                  /\ cache' = cache]_vars

\* C12's case: the second search of a run has ended with the translated
\* error of a connection reset, after one embedding call of its own.
Witness_C12 ==
    /\ call.op = "search"
    /\ "failure" \in DOMAIN call
    /\ call.failure = "ECONNRESET"
    /\ call.n = 2
    /\ embeddingCalls = 2
    /\ call.ret = Err("OpenAI connection timeout. Please try later.")

(***************************************************************************)
(* The scoring pass of search with the compatibility analyzer: searches     *)
(* and direct analyze calls on stores whose rows may have a NULL title, an  *)
(* empty content, or both.                                                  *)
(***************************************************************************)
MaxCompatDocs == 2

CompatTitles == {NullTitle, {"Migrating"}, {"SwiftUI"}}
CompatContents == {<<>>, <<"text">>}
CompatVecs == {<<1, 0>>, <<3, 4>>}
CompatQuery == <<1, 0>>
CompatLimits == {1, 10}

CompatCorpora ==
    UNION { { [i \in 1..n |-> Doc(i, t[i], c[i], v[i])] :
                t \in [1..n -> CompatTitles], c \in [1..n -> CompatContents],
                v \in [1..n -> CompatVecs] } : n \in 1..MaxCompatDocs }

InitCompat ==
    /\ corpus \in CompatCorpora
    /\ db = "open"
    /\ initialized = TRUE
    /\ openaiInitialized = TRUE
    /\ inflight = {}
    /\ call = NoCall
    /\ embeddingCalls = 0
    /\ cache = <<>>
    /\ ServerIdle
    /\ NotInstalled

\* compatibilityAnalyzer.analyze(doc) for a row of the store.
CompatAnalyze ==
    \E i \in DOMAIN corpus :
        LET a == analyze(cache, corpus[i])
        IN  /\ cache' = a.cache
            /\ call' = [op |-> "analyze", id |-> corpus[i].id, cacheBefore |-> cache,
                        ok |-> a.ok, ret |-> a.compatibility]
            /\ UNCHANGED <<corpus, installVars, embeddingCalls, engineVars, inflight, serverVars>>

\* The scan of a search whose query embedding is CompatQuery.
CompatSearch ==
    \E limit \in CompatLimits :
        LET a == searchAnnotated(cache, corpus, CompatQuery, limit, DefaultMinSimilarity)
        IN  /\ cache' = a.cache
            /\ call' = [op |-> "search", limit |-> limit, cacheBefore |-> cache,
                        ret |-> a.ret]
            /\ UNCHANGED <<corpus, installVars, embeddingCalls, engineVars, inflight, serverVars>>

\* clearCache()
CompatClearCache ==
    /\ cache' = <<>>
    /\ call' = [op |-> "clearCache"]
    /\ UNCHANGED <<corpus, installVars, embeddingCalls, engineVars, inflight, serverVars>>

NextCompat ==
    \/ CompatAnalyze
    \/ CompatSearch
    \/ CompatClearCache

SpecCompat == InitCompat /\ [][NextCompat]_vars

\* The stored row with the id `id`.
RowWithId(id) == corpus[CHOOSE i \in DOMAIN corpus : corpus[i].id = id]

\* The rows whose analysis throws: a NULL title beside a non-empty content.
AnalysisFails(d) == d.title = NullTitle /\ d.content # <<>>

\* The deprecation finding of a row whose analysis does not throw.
ExpectedDeprecation(d) ==
    IF d.content # <<>> /\ d.title = {"Migrating"}
    THEN [status |-> "migration_guide"]
    ELSE Null

\* C17: a failed compatibility analysis of one document never aborts the
\* search: the search returns the documents and similarities of the plain
\* scan, a document whose analysis fails carries an empty or null
\* annotation, and every other document carries the annotation it has in
\* the cache or, if it has none there, the one its own analysis yields.
Thm_C17_AnalysisFailureIsLocal ==
    call.op = "search" =>
        LET plain == searchScan(corpus, CompatQuery, call.limit, DefaultMinSimilarity)
        IN  /\ call.ret.ok
            /\ Len(call.ret.val) = Len(plain.val)
            /\ \A j \in DOMAIN call.ret.val :
                  LET res == call.ret.val[j]
                      d == RowWithId(res.id)
                  IN  /\ res.id = plain.val[j].id
                      /\ res.similarity = plain.val[j].similarity
                      /\ IF res.id \in DOMAIN call.cacheBefore
                         THEN res.compatibility = call.cacheBefore[res.id]
                         ELSE IF AnalysisFails(d)
                         THEN res.compatibility \in {EmptyCompatibility, Null}
                         ELSE res.compatibility
                                = [supported |-> <<>>, deprecation |-> ExpectedDeprecation(d)]

\* C17's case: a search on an empty cache returned a document whose analysis
\* failed and, after it in row order, a migration guide with its finding.
Witness_C17 ==
    /\ call.op = "search"
    /\ call.cacheBefore = <<>>
    /\ call.ret.ok
    /\ \E j, k \in DOMAIN call.ret.val :
          /\ call.ret.val[j].id < call.ret.val[k].id
          /\ AnalysisFails(RowWithId(call.ret.val[j].id))
          /\ call.ret.val[k].compatibility.deprecation = [status |-> "migration_guide"]

(***************************************************************************)
(* The analyzer cache over many documents: analyze is called for documents  *)
(* of ascending id (each id may be analyzed again right after its first     *)
(* analysis), so that the cache can grow past the maxSize that              *)
(* getCacheStats reports.  Every fifth document has a NULL title and fails  *)
(* its analysis.                                                            *)
(***************************************************************************)
MaxAnalyzed == 1260

CacheDoc(id) ==
    Doc(id, IF id % 5 = 0 THEN NullTitle
            ELSE IF id % 2 = 0 THEN {"Migrating"} ELSE {"SwiftUI"},
        <<"text">>, <<1, 0>>)

InitCache ==
    /\ corpus = <<>>
    /\ db = "open"
    /\ initialized = TRUE
    /\ openaiInitialized = TRUE
    /\ inflight = {}
    /\ call = [op |-> "none", id |-> 0]
    /\ embeddingCalls = 0
    /\ cache = <<>>
    /\ ServerIdle
    /\ NotInstalled

\* analyze(doc) for the last analyzed document again, or for the next one.
CacheAnalyze ==
    \E id \in {call.id, call.id + 1} \cap 1..MaxAnalyzed :
        LET a == analyze(cache, CacheDoc(id))
        IN  /\ cache' = a.cache
            /\ call' = [op |-> "analyze", id |-> id, ok |-> a.ok, ret |-> a.compatibility]
            /\ UNCHANGED <<corpus, installVars, embeddingCalls, engineVars, inflight, serverVars>>

\* clearCache(): the ids start over.
CacheClear ==
    /\ cache' = <<>>
    /\ call' = [op |-> "clearCache", id |-> 0]
    /\ UNCHANGED <<corpus, installVars, embeddingCalls, engineVars, inflight, serverVars>>

\* getCacheStats()
CacheStats ==
    /\ call' = [op |-> "getCacheStats", id |-> call.id, ret |-> getCacheStats(cache)]
    /\ UNCHANGED <<corpus, installVars, apiVars, engineVars, inflight, serverVars>>

NextCache ==
    \/ CacheAnalyze
    \/ CacheClear
    \/ CacheStats

SpecCache == InitCache /\ [][NextCache]_vars

\* C19: the cache is keyed by document id and unbounded: a successful
\* analyze leaves an entry under the id of its document, an analyze adds no
\* entry under another id, and no step other than clearCache removes or
\* changes an entry, so the cache holds every id analyzed successfully since
\* the last clearCache, however many they are.
Thm_C19_CacheKeyedUnbounded ==
    [][/\ (call'.op = "analyze" /\ call'.ok) => call'.id \in DOMAIN cache'
       /\ (call'.op = "analyze" /\ ~call'.ok) => DOMAIN cache' = DOMAIN cache
       /\ call'.op = "analyze" => DOMAIN cache' \subseteq DOMAIN cache \cup {call'.id}
       /\ call'.op # "clearCache" =>
             \A k \in DOMAIN cache : k \in DOMAIN cache' /\ cache'[k] = cache[k]]_vars

\* C19's case: getCacheStats reports a size above the maxSize it reports.
Witness_C19 ==
    /\ call.op = "getCacheStats"
    /\ call.ret.size > call.ret.maxSize
    /\ call.ret.size = Cardinality(DOMAIN cache)

(***************************************************************************)
(* The server under the scheduling of the event loop: a timer that was set  *)
(* fires (setTimeout, server.js 109-111), and p-limit starts the next       *)
(* queued function once the slot is free.  Nothing is assumed of the        *)
(* embedding service: it may never answer.                                  *)
(***************************************************************************)
SpecServerFair ==
    /\ InitServer
    /\ [][NextServer]_vars
    /\ WF_vars(AdmitFirst)
    /\ WF_vars(Admit)
    /\ WF_vars(Timeout)

Queued(r) == r \in DOMAIN reqs /\ reqs[r].pc = "queued"

Admitted(r) == r \in DOMAIN reqs /\ reqs[r].pc # "queued"

Responded(r) ==
    /\ r \in DOMAIN reqs
    /\ reqs[r].pc \in {"done", "timedout"}
    /\ reqs[r].response # NoResponse

\* C20: every request handed to the queue is eventually admitted, every
\* admitted request eventually has its response (a result or an error), and
\* a taken slot is eventually released, also when the embedding service
\* never answers.
Thm_C20_EveryRequestAnswered ==
    /\ \A r \in 1..MaxReq : Queued(r) ~> Admitted(r)
    /\ \A r \in 1..MaxReq : Admitted(r) ~> Responded(r)
    /\ (activeCount = 1) ~> (activeCount = 0)

\* C20's case: the embedding of a search never arrived, its timer answered
\* the caller, and the request queued behind it was admitted and answered.
Witness_C20 ==
    \E r1, r2 \in DOMAIN reqs :
        /\ r1 < r2
        /\ reqs[r1].pc = "timedout"
        /\ ops[r1] = "running"
        /\ Responded(r2)
        /\ activeCount = 0

\* The requests that got their response in this step.
AnsweredNow == {r \in DOMAIN reqs : reqs[r].response = NoResponse /\ reqs'[r].response # NoResponse}

\* C21: engine initialization is attempted at most once: the outcome of the
\* first attempt is never replaced and the engine object and its state are
\* kept; after a successful attempt every later request is served by that
\* engine, and after a failed one no request initializes again and every
\* request answered later is answered with an error.
Thm_C21_InitializedAtMostOnce ==
    [][/\ initPromise # "null"
            => /\ initPromise' = initPromise
               /\ searchEngine' = searchEngine
               /\ <<db, initialized, openaiInitialized>>' = <<db, initialized, openaiInitialized>>
       /\ initPromise = "resolved" => (searchEngine = "engine" /\ initialized /\ db = "open")
       /\ initPromise = "rejected"
            => /\ ~initialized /\ db = "null"
               /\ \A r \in AnsweredNow : ~reqs'[r].response.ok]_vars

\* C21's case: the first attempt failed, and a later request, admitted after
\* it, was answered with an error without another attempt.
Witness_C21 ==
    /\ initPromise = "rejected"
    /\ Len(reqs) = 2
    /\ Responded(1) /\ ~reqs[1].response.ok
    /\ Responded(2) /\ ~reqs[2].response.ok

\* The search_docs requests whose primary search succeeded while the handler
\* waited for it.
PrimarySucceeded ==
    {r \in DOMAIN reqs : reqs[r].tool = "search_docs" /\ reqs[r].pc = "done" /\ ops[r] = "done"}

Witness_C22_ReadFails ==
    \E r \in PrimarySucceeded :
        /\ reqs[r].discovery = "readFails"
        /\ reqs[r].primary # <<>>
        /\ ~reqs[r].response.val.relatedError

(***************************************************************************)
(* Code texts.  A code is the sequence of its tokens: the punctuation the   *)
(* repair and the validity filter look for, the two white-space characters, *)
(* and words (runs of word characters) that are either Swift keywords or    *)
(* identifiers.  A regular expression of the source is the sequence of its  *)
(* elements, each a set of tokens with the least and the most repetitions,  *)
(* matched greedily with backtracking as the JavaScript engine does.  The   *)
(* end of the text is the token EOT, appended where a pattern has `$`.      *)
(***************************************************************************)
EOT == "EOT"
WhiteSpace == {" ", "\n"}
DeclarationKeywords == {"class", "struct", "enum", "protocol"}
BindingKeywords == {"let", "var"}
SwiftKeywords == DeclarationKeywords \cup BindingKeywords \cup {"func", "import"}
Identifiers == {"x", "Int", "SwiftUI", "Button"}
WordTokens == SwiftKeywords \cup Identifiers
Punctuation == {"{", "}", ",", "(", ")", ";", ".", ":", "@", "="}
CodeTokens == WhiteSpace \cup WordTokens \cup Punctuation

\* The characters of a token.
Chars(token) ==
    CASE token = "Int" -> 3
      [] token = "SwiftUI" -> 7
      [] token = "Button" -> 6
      [] token \in {"let", "var"} -> 3
      [] token \in {"func", "enum"} -> 4
      [] token = "class" -> 5
      [] token \in {"struct", "import"} -> 6
      [] token = "protocol" -> 8
      [] OTHER -> 1

\* code.length
Length(code) == SumSeq([i \in DOMAIN code |-> Chars(code[i])])

Unbounded == 1000
One(tokens) == [in |-> tokens, min |-> 1, max |-> 1]
Star(tokens) == [in |-> tokens, min |-> 0, max |-> Unbounded]
Plus(tokens) == [in |-> tokens, min |-> 1, max |-> Unbounded]
Repeat(tokens, least, most) == [in |-> tokens, min |-> least, max |-> most]

\* The length of the run of tokens of the set `tokens` that starts at i.
RECURSIVE RunLength(_, _, _)
RunLength(text, i, tokens) ==
    IF i > Len(text) \/ text[i] \notin tokens THEN 0
    ELSE 1 + RunLength(text, i + 1, tokens)

\* The position after the match of the elements k.. of `pattern` that starts
\* at position i of the text, or 0 when there is none.
RECURSIVE MatchEnd(_, _, _, _)
MatchEnd(text, i, pattern, k) ==
    IF k > Len(pattern) THEN i
    ELSE LET element == pattern[k]
             run == Min(RunLength(text, i, element.in), element.max)
             counts == {n \in element.min..run : MatchEnd(text, i + n, pattern, k + 1) # 0}
         IN  IF counts = {} THEN 0
             ELSE MatchEnd(text, i + (CHOOSE n \in counts : \A m \in counts : m <= n),
                           pattern, k + 1)

\* String.prototype.replace with a global pattern.  A rule is the pattern,
\* the text put in place of the match, and what of the match is kept after
\* it ($1): nothing, what follows the comma, or what follows the comma and
\* the white space after it.
Rule(pattern, replacement, keep) ==
    [pattern |-> pattern, replacement |-> replacement, keep |-> keep]

KeptFrom(text, i, keep) ==
    CASE keep = "afterComma" -> i + 1
      [] keep = "afterSpace" -> i + 1 + RunLength(text, i + 1, WhiteSpace)
      [] OTHER -> Len(text) + 1

RECURSIVE ReplaceFrom(_, _, _)
ReplaceFrom(text, i, rule) ==
    IF i > Len(text) THEN <<>>
    ELSE LET end == MatchEnd(text, i, rule.pattern, 1)
         IN  IF end = 0
             THEN <<text[i]>> \o ReplaceFrom(text, i + 1, rule)
             ELSE rule.replacement
                    \o SubSeq(text, Min(KeptFrom(text, i, rule.keep), end), end - 1)
                    \o ReplaceFrom(text, end, rule)

replace(text, rule) == ReplaceFrom(text, 1, rule)

\* The number of matches of a global pattern: (code.match(/.../g) || []).length
RECURSIVE MatchesFrom(_, _, _)
MatchesFrom(text, i, pattern) ==
    IF i > Len(text) THEN 0
    ELSE LET end == MatchEnd(text, i, pattern, 1)
         IN  IF end = 0 THEN MatchesFrom(text, i + 1, pattern)
             ELSE 1 + MatchesFrom(text, end, pattern)

\* RegExp.prototype.test of a pattern that starts with `^`.
testAtStart(text, pattern) == MatchEnd(text \o <<EOT>>, 1, pattern, 1) # 0

\* String.prototype.trim
RECURSIVE trimStart(_)
trimStart(text) ==
    IF text # <<>> /\ Head(text) \in WhiteSpace THEN trimStart(Tail(text)) ELSE text

RECURSIVE trimEnd(_)
trimEnd(text) ==
    IF text # <<>> /\ text[Len(text)] \in WhiteSpace
    THEN trimEnd(SubSeq(text, 1, Len(text) - 1)) ELSE text

trim(text) == trimEnd(trimStart(text))

\* text.split(separator).length for separators that are single tokens.
splitLength(text, separators) ==
    1 + Cardinality({i \in DOMAIN text : text[i] \in separators})

\* The patterns of attemptCodeFormatFix, in the order they are applied.
Spaces(n) == [i \in 1..n |-> " "]

RepairRules ==
    << Rule(<<One({"{"}), Star(WhiteSpace), One({","})>>, <<"{", "\n">>, "none"),
       Rule(<<One({","}), Star(WhiteSpace), One({"}"})>>, <<"\n", "}">>, "none"),
       Rule(<<One({")"}), Star(WhiteSpace), One({","}), Star(WhiteSpace), One({"{"})>>,
            <<")", " ", "{", "\n">>, "none"),
       Rule(<<One({";"}), Star(WhiteSpace), One({","})>>, <<";", "\n">>, "none"),
       Rule(<<One({","}), Repeat(WhiteSpace, 8, Unbounded)>>, <<"\n">>, "afterComma"),
       Rule(<<One({","}), Repeat(WhiteSpace, 4, 7)>>, <<"\n">>, "afterComma"),
       Rule(<<One({","}), Repeat(WhiteSpace, 2, 3)>>, <<"\n">>, "afterComma"),
       Rule(<<One({","}), Star(WhiteSpace),
              One({"let", "var", "func", "class", "struct", "enum", "import"}), One({" "})>>,
            <<"\n">>, "afterSpace"),
       Rule(<<One({","}), Star(WhiteSpace), One({"@"})>>, <<"\n">>, "afterSpace"),
       Rule(<<One({","}), Star(WhiteSpace), One({"."}), One(WordTokens)>>,
            <<"\n">> \o Spaces(4), "afterSpace"),
       Rule(<<One({","}), Star(WhiteSpace), Plus(WordTokens), One({"("})>>,
            <<"\n">> \o Spaces(4), "afterSpace"),
       Rule(<<One({","}), Star(WhiteSpace), Plus(WordTokens), One({":"})>>,
            <<"\n">> \o Spaces(4), "afterSpace"),
       Rule(<<One({"\n"}), Star(WhiteSpace), One({","})>>, <<"\n">>, "none"),
       Rule(<<One({","}), Star(WhiteSpace), One({"\n"})>>, <<"\n">>, "none"),
       Rule(<<Repeat({"\n"}, 3, Unbounded)>>, <<"\n", "\n">>, "none") >>

RECURSIVE ApplyRules(_, _, _)
ApplyRules(text, rules, k) ==
    IF k > Len(rules) THEN text ELSE ApplyRules(replace(text, rules[k]), rules, k + 1)

\* code.replace(/,/g, '\n').trim()
basicFallback(code) == trim([i \in DOMAIN code |-> IF code[i] = "," THEN "\n" ELSE code[i]])

(***************************************************************************)
(* The code example miner.  For the miner a document's content is the       *)
(* sequence of its segments: runs of prose and fenced blocks.  A fenced     *)
(* block has the language tag after its opening fence, its code, and the    *)
(* length of the context that extractSmartContextBefore and                 *)
(* extractSmartContextAfter find around it.                                 *)
(***************************************************************************)
MaxSegments == 3

Prose(len) == [kind |-> "text", length |-> len]
FencedBlock(lang, code, ctx) ==
    [kind |-> "block", lang |-> lang, code |-> code, context |-> ctx,
     length |-> Length(code) + Len(lang) + 8]

\* A function of n + 2 lines.
FunctionOfLines(n) ==
    <<"func", " ", "x", "(", ")", " ", "{">>
        \o [i \in 1..(2 * n) |-> IF i % 2 = 1 THEN "\n" ELSE "x"]
        \o <<"\n", "}">>

\* A code too short, a single import, a type declaration without a body, a
\* single let, a Button of three lines, and a function of twelve lines.
Codes ==
    { <<"x">>,
      <<"import", " ", "SwiftUI">>,
      <<"struct", " ", "SwiftUI">>,
      <<"let", " ", "SwiftUI">>,
      <<"Button", "(", ")", " ", "{", "\n", "x", "\n", "}">>,
      FunctionOfLines(10) }

Langs == {"swift", "objc", ""}

\* A pattern that matches every fenced block, whatever its tag.
swiftCodeRegex_AnyFence(segment) == segment.kind = "block"

\* swiftCodeRegex = /```swift\s*\n([\s\S]*?)\n?\s*```/g matches the fenced
\* blocks whose opening fence is tagged swift.
swiftCodeRegex(segment) == segment.kind = "block" /\ segment.lang = "swift"

\* match.index of the segment i: the lengths of the segments before it.
startIndex(content, i) == SumSeq([k \in 1..(i - 1) |-> content[k].length])

\* attemptCodeFormatFix(code)
attemptCodeFormatFix(code) ==
    IF "," \notin Range(code) THEN code
    ELSE LET fixed == trim(ApplyRules(code, RepairRules, 1))
             originalLines == splitLength(code, {",", "\n"})
             fixedLines == splitLength(fixed, {"\n"})
         IN  IF 2 * fixedLines < originalLines THEN basicFallback(code) ELSE fixed

\* categorizeCodeEnhanced: the first rule, and the default; no other rule
\* matches a text made of the tokens of the model.
categorizeCodeEnhanced(code, title, context) ==
    IF "Button" \in Range(code) THEN "UI Controls" ELSE "General"

\* lines <= 3 ? 'Simple' : lines <= 10 ? 'Medium' : 'Complex'
complexityOf(lines) ==
    IF lines <= 3 THEN "Simple" ELSE IF lines <= 10 THEN "Medium" ELSE "Complex"

\* /^(class|struct|enum|protocol)\s+\w+.*$/
TypeDeclarationPattern ==
    <<One(DeclarationKeywords), Plus(WhiteSpace), Plus(WordTokens),
      Star(CodeTokens \ {"\n"}), One({EOT})>>

\* /^import\s+\w+$/
ImportPattern == <<One({"import"}), Plus(WhiteSpace), Plus(WordTokens), One({EOT})>>

\* /^(let|var)\s+\w+/
BindingPattern == <<One(BindingKeywords), Plus(WhiteSpace), Plus(WordTokens)>>

\* (code.match(/,\s*}/g) || []).length + (code.match(/{\s*,/g) || []).length
artifactCount(code) ==
    MatchesFrom(code, 1, <<One({","}), Star(WhiteSpace), One({"}"})>>)
        + MatchesFrom(code, 1, <<One({"{"}), Star(WhiteSpace), One({","})>>)

\* A filter that lets single imports through.
isValidCodeExample_KeepsImports(code, context) ==
    IF Length(trim(code)) < 10 THEN FALSE
    ELSE IF testAtStart(trim(code), TypeDeclarationPattern) /\ "{" \notin Range(code) THEN FALSE
    ELSE IF /\ testAtStart(trim(code), BindingPattern)
            /\ splitLength(code, {"\n"}) = 1
            /\ context < 20 THEN FALSE
    ELSE IF 10 * artifactCount(code) > 3 * splitLength(code, {"\n"}) THEN FALSE
    ELSE TRUE

\* isValidCodeExample(code, context), with the length of the context.
isValidCodeExample(code, context) ==
    IF Length(trim(code)) < 10 THEN FALSE
    ELSE IF testAtStart(trim(code), TypeDeclarationPattern) /\ "{" \notin Range(code) THEN FALSE
    ELSE IF testAtStart(trim(code), ImportPattern) THEN FALSE
    ELSE IF /\ testAtStart(trim(code), BindingPattern)
            /\ splitLength(code, {"\n"}) = 1
            /\ context < 20 THEN FALSE
    ELSE IF 10 * artifactCount(code) > 3 * splitLength(code, {"\n"}) THEN FALSE
    ELSE TRUE

\* extractCodeExamples(doc)
extractCodeExamples(doc) ==
    LET content == doc.content
        matches == SelectSeq([i \in DOMAIN content |-> i],
                             LAMBDA i : swiftCodeRegex(content[i]))
        kept == SelectSeq(matches,
                          LAMBDA i : isValidCodeExample(attemptCodeFormatFix(content[i].code),
                                                        content[i].context))
    IN  [j \in DOMAIN kept |->
            LET block == content[kept[j]]
                fixedCode == attemptCodeFormatFix(block.code)
            IN  [id |-> <<doc.id, startIndex(content, kept[j])>>,
                 documentId |-> doc.id,
                 code |-> fixedCode,
                 originalCode |-> block.code,
                 lines |-> splitLength(fixedCode, {"\n"}),
                 complexity |-> complexityOf(splitLength(fixedCode, {"\n"})),
                 category |-> categorizeCodeEnhanced(block.code, doc.title, block.context)]]

(***************************************************************************)
(* Inputs of the miner specification: one document of up to MaxSegments     *)
(* segments.                                                                *)
(***************************************************************************)
ContextsOf(code) == IF Head(code) \in BindingKeywords THEN {10, 40} ELSE {40}

Segments ==
    {Prose(30)}
    \cup UNION { {FencedBlock(lang, code, ctx) : lang \in Langs, ctx \in ContextsOf(code)} :
                   code \in Codes }

MinerCorpora ==
    UNION { { << Doc(1, {"Overview"}, content, <<1, 0>>) >> :
                content \in [1..n -> Segments] } : n \in 0..MaxSegments }

InitMiner ==
    /\ corpus \in MinerCorpora
    /\ db = "open"
    /\ initialized = TRUE
    /\ openaiInitialized = TRUE
    /\ inflight = {}
    /\ call = NoCall
    /\ embeddingCalls = 0
    /\ cache = <<>>
    /\ ServerIdle
    /\ NotInstalled

\* extractCodeExamples on the stored document.
ExtractCodeExamples ==
    /\ call = NoCall
    /\ call' = [op |-> "extractCodeExamples", ret |-> Ok(extractCodeExamples(corpus[1]))]
    /\ UNCHANGED <<corpus, installVars, apiVars, engineVars, inflight, serverVars>>

NextMiner == ExtractCodeExamples

SpecMiner == InitMiner /\ [][NextMiner]_vars

\* The positions, in document order, of the fenced blocks of the stored
\* document that pass the validity filter: all of them, and those tagged swift.
BlockPositions == [i \in DOMAIN corpus[1].content |-> i]

PassesFilter(i) ==
    /\ corpus[1].content[i].kind = "block"
    /\ isValidCodeExample(corpus[1].content[i].code, corpus[1].content[i].context)

ValidFencedBlocks == SelectSeq(BlockPositions, PassesFilter)

ValidSwiftBlocks ==
    SelectSeq(BlockPositions, LAMBDA i : PassesFilter(i) /\ corpus[1].content[i].lang = "swift")

\* The call returned, without an error, one example for each of the blocks
\* at the positions `valid`, in that order, with increasing start offsets.
OneExamplePerBlock(valid) ==
    call.op = "extractCodeExamples" =>
        /\ call.ret.ok
        /\ Len(call.ret.val) = Len(valid)
        /\ \A j \in DOMAIN call.ret.val :
              /\ j \in DOMAIN valid
              /\ call.ret.val[j].id = <<corpus[1].id, startIndex(corpus[1].content, valid[j])>>
              /\ call.ret.val[j].originalCode = corpus[1].content[valid[j]].code
        /\ \A j, k \in DOMAIN call.ret.val :
              j < k => call.ret.val[j].id[2] < call.ret.val[k].id[2]

MaxDim == 2
MaxVectors == 2

Components == {-1, 0, 1, 2}

Vectors == UNION { [1..n -> Components] : n \in 0..MaxDim }

CentroidVectors == [1..MaxDim -> {0, 1}]

EmbeddingLists ==
    UNION { [1..n -> {[id |-> 1, vector |-> v] : v \in CentroidVectors}] : n \in 0..MaxVectors }

MixedVectors == { <<1, 0>>, <<0, 1>>, <<1>>, <<1, 0, 0>> }

MixedCorpora ==
    UNION { { [i \in 1..n |-> Doc(i, NoTitle, NoContent, f[i])] :
                f \in [1..n -> MixedVectors] } : n \in 0..MaxDocs }

InitVectors ==
    /\ corpus = <<>>
    /\ db = "open"
    /\ initialized = TRUE
    /\ openaiInitialized = TRUE
    /\ inflight = {}
    /\ call = NoCall
    /\ embeddingCalls = 0
    /\ cache = <<>>
    /\ ServerIdle
    /\ NotInstalled

\* calculateCosineSimilarity on a pair of vectors, and on the pair swapped.
CosineSimilarity ==
    /\ call = NoCall
    /\ \E vectorA \in Vectors, vectorB \in Vectors :
         call' = [op |-> "calculateCosineSimilarity", vectorA |-> vectorA, vectorB |-> vectorB,
                  ret |-> calculateCosineSimilarity(vectorA, vectorB),
                  swapped |-> calculateCosineSimilarity(vectorB, vectorA)]
    /\ UNCHANGED <<corpus, installVars, apiVars, engineVars, inflight, serverVars>>

\* computeCentroid on a list of embeddings, and findSimilarByEmbedding with
\* what it returned.
ComputeCentroid ==
    /\ call = NoCall
    /\ \E embeddings \in EmbeddingLists, rows \in {<<>>, ExampleCorpus} :
         call' = [op |-> "computeCentroid", embeddings |-> embeddings, rows |-> rows,
                  ret |-> computeCentroid(embeddings),
                  similar |-> findSimilarByEmbedding("open", rows, computeCentroid(embeddings),
                                                     {}, 0, MaxCandidates)]
    /\ UNCHANGED <<corpus, installVars, apiVars, engineVars, inflight, serverVars>>

\* The scan of a search over rows of mixed vector lengths.
MixedSearch ==
    /\ call = NoCall
    /\ \E rows \in MixedCorpora, queryVector \in MixedVectors :
         call' = [op |-> "search", rows |-> rows, queryVector |-> queryVector,
                  ret |-> searchResume("open", rows, queryVector, DefaultLimit,
                                       DefaultMinSimilarity)]
    /\ UNCHANGED <<corpus, installVars, apiVars, engineVars, inflight, serverVars>>

NextVectors ==
    \/ CosineSimilarity
    \/ ComputeCentroid
    \/ MixedSearch

SpecVectors == InitVectors /\ [][NextVectors]_vars

IsZero(v) == \A i \in DOMAIN v : v[i] = 0

\* C23 as stated: computing the centroid of an empty list of vectors fails
\* with an EmptyInput error and never returns a value.
Cex_C23_EmptyCentroidFails ==
    (call.op = "computeCentroid" /\ call.embeddings = <<>>) => call.ret = Err("EmptyInput")

\* C23 amended: computeCentroid raises no error: for an empty list it
\* returns null and never a vector, for a non-empty list it returns the
\* mean of as many vectors as the list has, and findSimilarByEmbedding
\* given the null returns the empty list, whatever the store holds.
Thm_C23_EmptyCentroidIsNull ==
    call.op = "computeCentroid" =>
        /\ call.ret = NullCentroid <=> call.embeddings = <<>>
        /\ call.embeddings # <<>> => (/\ call.ret.count = Len(call.embeddings)
                                      /\ Len(call.ret.sum) = MaxDim)
        /\ call.embeddings = <<>> => call.similar = <<>>

\* The centroid of no vectors was asked for, beside a store with documents.
Witness_C23 ==
    /\ call.op = "computeCentroid"
    /\ call.embeddings = <<>>
    /\ call.rows # <<>>
    /\ call.ret = NullCentroid

\* C24: for every pair of vectors of equal length of which at least one has
\* norm zero, calculateCosineSimilarity returns exactly 0: no NaN, no error.
Thm_C24_ZeroNormGivesZero ==
    (/\ call.op = "calculateCosineSimilarity"
     /\ Len(call.vectorA) = Len(call.vectorB)
     /\ IsZero(call.vectorA) \/ IsZero(call.vectorB))
        => call.ret = Ok(FromHundredths(0))

\* A zero vector was compared with a vector that is not zero.
Witness_C24 ==
    /\ call.op = "calculateCosineSimilarity"
    /\ Len(call.vectorA) = MaxDim /\ Len(call.vectorB) = MaxDim
    /\ IsZero(call.vectorA) /\ ~IsZero(call.vectorB)
    /\ call.ret.ok

\* C25: calculateCosineSimilarity fails with the dimension-mismatch error
\* for every pair of vectors of different lengths and returns no score; so a
\* search fails as a whole, with that error, when one stored vector has a
\* length other than that of the query vector.
Thm_C25_DimensionMismatchFails ==
    /\ (call.op = "calculateCosineSimilarity" /\ Len(call.vectorA) # Len(call.vectorB))
          => call.ret = Err("Vectors must have the same length")
    /\ (call.op = "search"
         /\ \E i \in DOMAIN call.rows : Len(call.rows[i].vec) # Len(call.queryVector))
          => call.ret = Err("Vectors must have the same length")

\* A search over three rows of which only the last has a vector of another
\* length than the query vector.
Witness_C25 ==
    /\ call.op = "search"
    /\ Len(call.rows) = 3
    /\ Len(call.rows[1].vec) = Len(call.queryVector)
    /\ Len(call.rows[2].vec) = Len(call.queryVector)
    /\ Len(call.rows[3].vec) # Len(call.queryVector)
    /\ ~call.ret.ok

\* C26: cosine similarity is symmetric: for vectors a and b of equal length
\* calculateCosineSimilarity(a, b) and calculateCosineSimilarity(b, a) are
\* the same score.
Thm_C26_CosineSymmetric ==
    (call.op = "calculateCosineSimilarity" /\ Len(call.vectorA) = Len(call.vectorB))
        => (call.ret.ok /\ call.swapped = call.ret)

\* Two vectors of different norms, neither zero nor orthogonal, were compared.
Witness_C26 ==
    /\ call.op = "calculateCosineSimilarity"
    /\ Len(call.vectorA) = MaxDim /\ Len(call.vectorB) = MaxDim
    /\ Dot(call.vectorA, call.vectorA) # Dot(call.vectorB, call.vectorB)
    /\ Dot(call.vectorA, call.vectorB) # 0
    /\ call.ret.ok /\ call.ret.val.p # 0

(***************************************************************************)
(* The repair step and the validity filter on their own, applied to every   *)
(* text of up to MaxCodeLen tokens of a small alphabet and to some longer   *)
(* texts.                                                                   *)
(***************************************************************************)
MaxCodeLen == 4

TextsOver(alphabet) == UNION { [1..n -> alphabet] : n \in 0..MaxCodeLen }

\* "{ ,let x = x, ,}"
CorruptedExample ==
    <<"{", " ", ",", "let", " ", "x", " ", "=", " ", "x", ",", " ", ",", "}">>

\* "func x(x: Int, x: Int) {\n    x\n}"
TwoParameterFunction ==
    <<"func", " ", "x", "(", "x", ":", " ", "Int", ",", " ", "x", ":", " ", "Int", ")", " ", "{",
      "\n", " ", " ", " ", " ", "x", "\n", "}">>

\* "{x,,,}": the body "{x" and "}" with two blank lines between them.
BlankLinesExample == <<"{", "x", ",", ",", ",", "}">>

RepairInputs ==
    TextsOver({"{", "}", ",", " ", "\n", "x", "let"})
        \cup {CorruptedExample, TwoParameterFunction, FunctionOfLines(2), BlankLinesExample}

\* "{\nlet x\nSwiftUI\n}"
BracedBody == <<"{", "\n", "let", " ", "x", "\n", "SwiftUI", "\n", "}">>

FilterInputs ==
    {code \in TextsOver({"import", "struct", "let", " ", "\n", "SwiftUI", "{", ","}) :
        trim(code) = code}
        \cup {FunctionOfLines(2), BracedBody, <<"import", " ", "x", "x", "x">>}

FilterContexts == {19, 20}

InitRepair ==
    /\ corpus = <<>>
    /\ db = "open"
    /\ initialized = TRUE
    /\ openaiInitialized = TRUE
    /\ inflight = {}
    /\ call = NoCall
    /\ embeddingCalls = 0
    /\ cache = <<>>
    /\ ServerIdle
    /\ NotInstalled

\* attemptCodeFormatFix on a code.
AttemptCodeFormatFix ==
    /\ call = NoCall
    /\ \E code \in RepairInputs :
         call' = [op |-> "attemptCodeFormatFix", code |-> code,
                  ret |-> attemptCodeFormatFix(code)]
    /\ UNCHANGED <<corpus, installVars, apiVars, engineVars, inflight, serverVars>>

\* isValidCodeExample on a code and a context of a given length.
IsValidCodeExample ==
    /\ call = NoCall
    /\ \E code \in FilterInputs, context \in FilterContexts :
         call' = [op |-> "isValidCodeExample", code |-> code, context |-> context,
                  ret |-> isValidCodeExample(code, context)]
    /\ UNCHANGED <<corpus, installVars, apiVars, engineVars, inflight, serverVars>>

NextRepair ==
    \/ AttemptCodeFormatFix
    \/ IsValidCodeExample

SpecRepair == InitRepair /\ [][NextRepair]_vars

\* The token after position i and the white space that follows it, or EOT.
NextAfterSpace(text, i) ==
    LET j == i + 1 + RunLength(text, i + 1, WhiteSpace)
    IN  IF j > Len(text) THEN EOT ELSE text[j]

\* The corrupted-brace artifacts of a text: the commas before a closing
\* brace and the opening braces before a comma, white space apart.
Artifacts(text) ==
    {i \in DOMAIN text : \/ (text[i] = "," /\ NextAfterSpace(text, i) = "}")
                          \/ (text[i] = "{" /\ NextAfterSpace(text, i) = ",")}

\* C27: the repair step is a no-op on well-formed code: a block with
\* internal newlines is returned unchanged.
Cex_C27_RepairKeepsWellFormedCode ==
    (/\ call.op = "attemptCodeFormatFix"
     /\ trim(call.code) = call.code
     /\ "\n" \in Range(call.code))
        => call.ret = call.code

\* A corrupted block: a trimmed text with words in which commas stand where
\* the newlines between its lines were.
Corrupted(code) ==
    /\ "," \in Range(code)
    /\ "\n" \notin Range(code)
    /\ trim(code) = code
    /\ Head(code) # ","
    /\ code[Len(code)] # ","
    /\ Range(code) \cap WordTokens # {}

\* C28: for every corrupted block (commas in place of newlines) the output
\* of the repair has at least one newline and no corrupted-brace artifact,
\* on the staged path and on the fallback path.
Cex_C28_RepairLeavesNoArtifact ==
    (call.op = "attemptCodeFormatFix" /\ Corrupted(call.code))
        => ("\n" \in Range(call.ret) /\ Artifacts(call.ret) = {})

\* What the claim says of the texts the filter rejects.
TooShort(code) == Length(code) < 10

BareTypeDeclaration(code) ==
    /\ "{" \notin Range(code)
    /\ Len(code) >= 3
    /\ code[1] \in DeclarationKeywords
    /\ code[2] \in WhiteSpace
    /\ NextAfterSpace(code, 1) \in WordTokens
    /\ \A i \in DOMAIN code :
          code[i] = "\n" => \A j \in 2..i : code[j] \in WhiteSpace

SingleBareImport(code) ==
    /\ Len(code) >= 3
    /\ code[1] = "import"
    /\ code[2] \in WhiteSpace
    /\ \E k \in 2..(Len(code) - 1) :
          /\ \A j \in 2..k : code[j] \in WhiteSpace
          /\ \A j \in (k + 1)..Len(code) : code[j] \in WordTokens

SingleLineBinding(code) ==
    /\ Len(code) >= 3
    /\ code[1] \in BindingKeywords
    /\ code[2] = " "
    /\ NextAfterSpace(code, 1) \in WordTokens
    /\ "\n" \notin Range(code)

DominatedByArtifacts(code) ==
    10 * Cardinality(Artifacts(code)) > 3 * (1 + Cardinality({i \in DOMAIN code : code[i] = "\n"}))

\* C29: the validity filter rejects a single bare import line, accepts a
\* function body of four lines with braces, at least 10 characters and no
\* artifact whatever the context, and rejects exactly the texts that are
\* shorter than 10 characters, a bare type declaration without a brace, a
\* single bare import, a single-line let/var with a context shorter than 20
\* characters, or that have more artifacts than 30% of their lines.
Thm_C29_ValidityFilter ==
    call.op = "isValidCodeExample" =>
        /\ (Len(call.code) = 3 /\ call.code[1] = "import" /\ call.code[2] = " "
             /\ call.code[3] \in WordTokens) => ~call.ret
        /\ (/\ Cardinality({i \in DOMAIN call.code : call.code[i] = "\n"}) = 3
            /\ "{" \in Range(call.code) /\ "}" \in Range(call.code)
            /\ Length(call.code) >= 10
            /\ Artifacts(call.code) = {}) => call.ret
        /\ (~call.ret) <=> \/ TooShort(call.code)
                         \/ BareTypeDeclaration(call.code)
                         \/ SingleBareImport(call.code)
                         \/ (SingleLineBinding(call.code) /\ call.context < 20)
                         \/ DominatedByArtifacts(call.code)

\* A function body of four lines went through the filter with a short
\* context.
Witness_C29 ==
    /\ call.op = "isValidCodeExample"
    /\ call.code = FunctionOfLines(2)
    /\ call.context < 20
    /\ call.ret

(***************************************************************************)
(* The install script, postinstall.js.  One run of the script checks       *)
(* whether the database file exists and otherwise downloads it: it creates *)
(* the write stream, sends the request, and then reacts to events of the   *)
(* request, of the response and of the file.  A run that failed calls      *)
(* process.exit(1); an unlink the run queued before that still happens.    *)
(* Sizes are counted in chunks of the response.                            *)
(***************************************************************************)
MaxRuns == 3
TotalChunks == 2

\* The status codes a server may answer with.
StatusCodes == {200, 301, 302, 404, 500}

Absent == [exists |-> FALSE, size |-> 0]

\* The run of the script is at position pc.
At(pc) == install.pc = pc

\* reject(...) of downloadDatabase's promise: the catch handler prints the
\* manual steps and calls process.exit(1).
rejected(error) == [install EXCEPT !.pc = "failed", !.error = error]

\* The script's top level: the database-exists check, then downloadDatabase
\* up to the end of its executor (createWriteStream, https.get, the two
\* error handlers).
Start ==
    /\ At("start")
    /\ IF dbFile.exists
       THEN install' = [install EXCEPT !.pc = "exists"]
       ELSE install' = [install EXCEPT !.pc = "opening", !.downloadedBytes = 0,
                                       !.redirected = FALSE, !.status = 0,
                                       !.error = "none"]
    /\ UNCHANGED <<corpus, dbFile, apiVars, engineVars, inflight, call, serverVars>>

\* fs.createWriteStream opened the file: flag 'w' creates it, empty.
FileOpen ==
    /\ At("opening")
    /\ dbFile' = [exists |-> TRUE, size |-> 0]
    /\ install' = [install EXCEPT !.pc = "requesting"]
    /\ UNCHANGED <<corpus, apiVars, engineVars, inflight, call, serverVars>>

\* file.on('error'): the file could not be opened or written.
FileError ==
    /\ install.pc \in {"opening", "requesting", "redirecting", "streaming"}
    /\ dbFile' = Absent
    /\ install' = rejected("file error")
    /\ UNCHANGED <<corpus, apiVars, engineVars, inflight, call, serverVars>>

\* request.on('error'): the first request failed.
RequestError ==
    /\ At("requesting")
    /\ dbFile' = Absent
    /\ install' = rejected("request error")
    /\ UNCHANGED <<corpus, apiVars, engineVars, inflight, call, serverVars>>

\* handleResponse(response).
handleResponse(statusCode) ==
    IF statusCode # 200
    THEN [rejected("Download failed") EXCEPT !.status = statusCode]
    ELSE [install EXCEPT !.pc = "streaming", !.status = statusCode]

\* The callback of https.get(DB_URL, ...).
Response ==
    /\ At("requesting")
    /\ \E statusCode \in StatusCodes :
          install' = IF statusCode = 302 \/ statusCode = 301
                     THEN [install EXCEPT !.pc = "redirecting", !.redirected = TRUE,
                                          !.status = statusCode]
                     ELSE handleResponse(statusCode)
    /\ UNCHANGED <<corpus, dbFile, apiVars, engineVars, inflight, call, serverVars>>

\* https.get(redirectUrl, handleResponse): the response of the redirect.
RedirectResponse ==
    /\ At("redirecting")
    /\ \E statusCode \in StatusCodes : install' = handleResponse(statusCode)
    /\ UNCHANGED <<corpus, dbFile, apiVars, engineVars, inflight, call, serverVars>>

\* https.get(redirectUrl, ...).on('error', reject).
RedirectError ==
    /\ At("redirecting")
    /\ install' = rejected("request error")
    /\ UNCHANGED <<corpus, dbFile, apiVars, engineVars, inflight, call, serverVars>>

\* response.on('data'): a chunk arrived and is handed to the pipe.
Data ==
    /\ At("streaming")
    /\ install.downloadedBytes < TotalChunks
    /\ install' = [install EXCEPT !.downloadedBytes = @ + 1]
    /\ UNCHANGED <<corpus, dbFile, apiVars, engineVars, inflight, call, serverVars>>

\* response.pipe(file): the stream wrote a chunk it was handed.
Write ==
    /\ At("streaming")
    /\ dbFile.size < install.downloadedBytes
    /\ dbFile' = [dbFile EXCEPT !.size = @ + 1]
    /\ UNCHANGED <<corpus, install, apiVars, engineVars, inflight, call, serverVars>>

\* file.on('finish'): the response ended and everything was written.
FileFinish ==
    /\ At("streaming")
    /\ install.downloadedBytes = TotalChunks
    /\ dbFile.size = TotalChunks
    /\ install' = [install EXCEPT !.pc = "downloaded"]
    /\ UNCHANGED <<corpus, dbFile, apiVars, engineVars, inflight, call, serverVars>>

\* The package is installed again: the script runs once more.
Reinstall ==
    /\ install.pc \in {"exists", "downloaded", "failed"}
    /\ install.run < MaxRuns
    /\ install' = [install EXCEPT !.pc = "start", !.run = @ + 1]
    /\ UNCHANGED <<corpus, dbFile, apiVars, engineVars, inflight, call, serverVars>>

InitInstall ==
    /\ corpus = <<>>
    /\ db = "null"
    /\ initialized = FALSE
    /\ openaiInitialized = FALSE
    /\ inflight = {}
    /\ call = NoCall
    /\ embeddingCalls = 0
    /\ cache = <<>>
    /\ ServerIdle
    /\ NotInstalled

NextInstall ==
    \/ Start
    \/ FileOpen
    \/ FileError
    \/ RequestError
    \/ Response
    \/ RedirectResponse
    \/ RedirectError
    \/ Data
    \/ Write
    \/ FileFinish
    \/ Reinstall

SpecInstall == InitInstall /\ [][NextInstall]_vars

\* C30: after a download that failed, in whatever way, no file remains at
\* the database path.
Cex_C30_FailedDownloadLeavesNoFile ==
    install.pc = "failed" => ~dbFile.exists

====
